---- MODULE Spec2Model ----
(***************************************************************************)
(* Model of the transfer subsystem of locsd_lib (src/src/core/mod.rs):     *)
(* the TCP receiver (start_file_server / handle_incoming_connection) and   *)
(* the sender (send_file / send_chunk), with the wire frames formatted and *)
(* parsed character by character as the code does.                        *)
(*                                                                         *)
(* Strings are sequences of one-character strings; a file is a sequence   *)
(* of bytes, a byte being a one-character string as well.                 *)
(***************************************************************************)
EXTENDS Integers, Sequences, FiniteSets, TLC

\* ------------------------------------------------------------------ bounds

\* Largest source file, in bytes.
MaxFileLen == 3
\* Largest parallel_cnt the host passes to send_file.
MaxPar == 2
\* Connections an arbitrary peer opens to the listener (OpenSpec).
MaxPeerConns == 2
\* Largest file length and parallel_cnt of the chunk plans of PlanSpec.
PlanMaxLen == 12
PlanMaxPar == 5
\* Datagrams the peers of DiscSpec send, and send_discover_once calls of
\* ExchangeSpec.
MaxDatagrams == 2
\* Size of the file received in ProgressSpec, in buffers of BufLen bytes.
MaxBuffers == 18
\* Most interfaces get_if_addrs reports in BroadcastSpec.
MaxIfaces == 2

\* ----------------------------------------------------------- wire strings

NL == "\n"
PIPE == "|"
SLASH == "/"

S_REQ == <<"R", "E", "Q">>
S_DATA == <<"D", "A", "T", "A">>
S_ACC == <<"A", "C", "C">>
\* b"ACC\n", b"REJ\n", b"REJ|CreateFileErr\n"
MsgACC == <<"A", "C", "C", NL>>
MsgREJ == <<"R", "E", "J", NL>>
MsgREJCreate == <<"R", "E", "J", PIPE, "C", "r", "e", "a", "t", "e", "F", "i", "l", "e", "E", "r", "r", NL>>

Digits == <<"0", "1", "2", "3", "4", "5", "6", "7", "8", "9">>

Min(a, b) == IF a <= b THEN a ELSE b

\* s[from..] (1-based); empty when from is past the end.
Drop(s, k) == SubSeq(s, k + 1, Len(s))
Take(s, k) == SubSeq(s, 1, Min(k, Len(s)))

\* str::starts_with
StartsWith(s, p) == Len(s) >= Len(p) /\ SubSeq(s, 1, Len(p)) = p

\* Index of the first occurrence of character ch in s, 0 when absent.
RECURSIVE IndexFrom(_, _, _)
IndexFrom(s, ch, i) ==
    IF i > Len(s) THEN 0
    ELSE IF s[i] = ch THEN i
    ELSE IndexFrom(s, ch, i + 1)

IndexOf(s, ch) == IndexFrom(s, ch, 1)

\* str::split(ch): the pieces between separators, empty pieces kept; the
\* empty string splits into one empty piece.
RECURSIVE Split(_, _)
Split(s, ch) ==
    LET i == IndexOf(s, ch)
    IN  IF i = 0 THEN <<s>>
        ELSE <<SubSeq(s, 1, i - 1)>> \o Split(Drop(s, i), ch)

\* format!("{}", n) for an unsigned integer: its decimal digits.
RECURSIVE FormatU64(_)
FormatU64(n) ==
    IF n < 10 THEN <<Digits[n + 1]>>
    ELSE FormatU64(n \div 10) \o <<Digits[(n % 10) + 1]>>

DigitVal(ch) == CHOOSE d \in 0..9 : Digits[d + 1] = ch
IsDigit(ch) == \E d \in 0..9 : Digits[d + 1] = ch

RECURSIVE DigitsVal(_, _)
DigitsVal(s, acc) ==
    IF s = <<>> THEN acc
    ELSE DigitsVal(Tail(s), acc * 10 + DigitVal(Head(s)))

\* str::parse::<u64>(): an optional '+', then one or more decimal digits;
\* -1 stands for Err. The frames of the model carry numbers of at most nine
\* digits, far below 2^64, so the overflow error of parse never arises; a
\* longer digit string is outside the model and reads as Err here.
ParseU64(s) ==
    LET body == IF s # <<>> /\ Head(s) = "+" THEN Tail(s) ELSE s
    IN  IF body = <<>> \/ \E i \in 1..Len(body) : ~IsDigit(body[i]) THEN -1
        ELSE IF Len(body) > 9 THEN -1
        ELSE DigitsVal(body, 0)

\* .parse().unwrap_or(0)
ParseOrZero(s) == IF ParseU64(s) = -1 THEN 0 ELSE ParseU64(s)

\* ------------------------------------------------------------- file system

\* A byte of a hole left by set_len or by a write past the end.
Zero == "NUL"

\* The receiver's save directory (start_file_server's save_dir).
SaveDir == <<SLASH, "d">>

\* Path::new(base).join(name): an absolute name replaces the base, a relative
\* one is appended after a separator; nothing is normalised.
JoinPath(base, name) ==
    IF name # <<>> /\ Head(name) = SLASH THEN name
    ELSE IF base # <<>> /\ base[Len(base)] # SLASH THEN base \o <<SLASH>> \o name
    ELSE base \o name

\* The directory entry a path string names, as the operating system walks it:
\* empty components and "." are skipped, ".." steps to the parent (the root
\* is its own parent). The result is the list of component names from the root.
RECURSIVE Walk(_, _)
Walk(comps, at) ==
    IF comps = <<>> THEN at
    ELSE LET c == Head(comps)
         IN  IF c = <<>> \/ c = <<".">> THEN Walk(Tail(comps), at)
             ELSE IF c = <<".", ".">>
                  THEN Walk(Tail(comps), IF at = <<>> THEN at ELSE SubSeq(at, 1, Len(at) - 1))
             ELSE Walk(Tail(comps), Append(at, c))

Resolve(path) == Walk(Split(path, SLASH), <<>>)

Parent(p) == SubSeq(p, 1, Len(p) - 1)

\* The directories that exist: the save directory and its ancestors.
Dirs == {SubSeq(Resolve(SaveDir), 1, k) : k \in 0..Len(Resolve(SaveDir))}

\* A regular file can exist at p: p is not a directory and its parent is one.
FileSlot(p) == p \notin Dirs /\ p # <<>> /\ Parent(p) \in Dirs

\* The file is located directly inside save_dir.
InSaveDir(p) == p # <<>> /\ Parent(p) = Resolve(SaveDir)

\* A path with no regular file, and a regular file holding data.
NoFile == [present |-> FALSE, data |-> <<>>]
FileOf(d) == [present |-> TRUE, data |-> d]

\* File::set_len(size): truncate, or extend with zero bytes.
SetLen(content, size) ==
    [i \in 1..size |-> IF i <= Len(content) THEN content[i] ELSE Zero]

\* WriteAt on a handle that ignores its position and appends.
WriteAtEnd(content, pos, bytes) == content \o bytes

\* write_all(bytes) at file position pos (0-based): bytes past the end extend
\* the file, a gap before pos reads as zero bytes.
WriteAt(content, pos, bytes) ==
    LET newLen == IF pos + Len(bytes) > Len(content) THEN pos + Len(bytes) ELSE Len(content)
    IN  [i \in 1..newLen |->
            IF i > pos /\ i <= pos + Len(bytes) THEN bytes[i - pos]
            ELSE IF i <= Len(content) THEN content[i]
            ELSE Zero]

\* ------------------------------------------------------------------ state

\* Connections to the transfer listener: 0 is the sender's handshake
\* connection, i + 1 the connection of sender worker i.
Conns == 0..MaxPar
Workers == 0..(MaxPar - 1)

\* let mut buffer = [0u8; 64 * 1024] (receiver and sender)
BufLen == 64 * 1024
\* the on_progress stride of the DATA handler
ProgressStride == 1024 * 1024

\* The source address the listener sees on a connection (socket.peer_addr()).
PeerIp == "10.0.0.5"

\* File names the frames of the model carry.
PlainName == <<"f">>
ParentName == <<".", ".", SLASH, "f">>
AbsName == <<SLASH, "f">>
WireNames == {PlainName, ParentName, AbsName}

\* Every file the listener can name.
FilePaths == {Resolve(JoinPath(SaveDir, n)) : n \in WireNames}

VARIABLES
    \* receiver: start_file_server's shared counters and the disk
    total_size_store,   \* current_file_size: Arc<Mutex<u64>>
    progress_counter,   \* progress_counter: Arc<Mutex<u64>>
    files,              \* resolved path -> file
    hnd,                \* connection -> the handler thread's locals
    rx_requests,        \* on_receive_request calls, in order
    rx_progress,        \* on_progress calls (transferred, total)
    rx_complete,        \* on_complete calls of the receiver's callback, in order
    \* the TCP connections
    c2s,                \* bytes sent by the peer, not yet read by the handler
    c2sClosed,          \* the peer closed (or dropped) its socket
    s2c,                \* bytes sent by the handler, not yet read by the peer
    s2cClosed,          \* the handler returned, its socket is closed
    \* sender: send_file's thread and its workers
    snd,                \* send_file's locals and position
    wrk,                \* worker index -> the worker thread's locals
    error_occurred,     \* error_occurred: Arc<AtomicBool>
    tx_progress,        \* progress: Arc<Mutex<u64>> of send_file
    tx_complete,        \* on_complete calls of the sender's callback, in order
    \* discovery: the start_listening thread of each host and the UDP network
    listener,           \* host -> the arguments its start_listening was called with
    udp_net,            \* datagrams sent and not yet received
    udp_log,            \* one record per datagram recv_from returned, in order
    udp_sends,          \* datagrams sent by peers / send_discover_once calls so far
    if_addrs,           \* what get_if_addrs() returns on this machine
    broadcasts,         \* the call of get_target_broadcats and its result
    devices             \* AppState.devices of the desktop application

rxVars == <<total_size_store, progress_counter, files, hnd, rx_requests, rx_progress, rx_complete>>
netVars == <<c2s, c2sClosed, s2c, s2cClosed>>
txVars == <<snd, wrk, error_occurred, tx_progress, tx_complete>>
discVars == <<listener, udp_net, udp_log, udp_sends, if_addrs, broadcasts, devices>>
vars == <<rxVars, netVars, txVars, discVars>>

\* The hosts that run the library, and their addresses.
Endpoints == {"A", "B"}
IpOf(e) == IF e = "A" THEN "10.0.0.5" ELSE "10.0.0.6"

\* A host that has not called start_listening.
NoListener == [on |-> FALSE, port |-> 0, device_id |-> <<>>, device_name |-> <<>>,
               server_port |-> 0]

\* get_target_broadcats has not been called; the machine has no interface.
BroadcastsOff ==
    /\ if_addrs = [ok |-> TRUE, ifaces |-> <<>>]
    /\ broadcasts = [called |-> FALSE, result |-> <<>>]

\* wlm.rs 87: the desktop application starts with devices: Vec::new().
NoDevices == devices = <<>>

\* No discovery is running.
DiscoveryOff ==
    /\ listener = [e \in Endpoints |-> NoListener]
    /\ udp_net = {}
    /\ udp_log = <<>>
    /\ udp_sends = 0
    /\ BroadcastsOff
    /\ NoDevices

\* A handler thread's locals. pc is its position in handle_incoming_connection.
HndFree == [pc |-> "free", verb |-> "", filename |-> <<>>, num |-> 0,
            path |-> <<>>, pos |-> 0, buf |-> <<>>, current_total |-> 0,
            total |-> 0, last_progress_update |-> 0, outcome |-> "none"]

\* A worker thread's locals; failed: its send_chunk returned Err.
WrkIdle == [pc |-> "idle", start |-> 0, length |-> 0, sent |-> 0, failed |-> FALSE]

SndIdle == [pc |-> "idle", exists |-> FALSE, file_name |-> <<>>, file_len |-> 0,
            parallel_cnt |-> 0, read_done |-> FALSE, response |-> <<>>, plan |-> <<>>]

Init ==
    /\ total_size_store = 0
    /\ progress_counter = 0
    /\ files = [p \in FilePaths |-> NoFile]
    /\ hnd = [c \in Conns |-> HndFree]
    /\ rx_requests = <<>>
    /\ rx_progress = {}
    /\ rx_complete = <<>>
    /\ c2s = [c \in Conns |-> <<>>]
    /\ c2sClosed = [c \in Conns |-> FALSE]
    /\ s2c = [c \in Conns |-> <<>>]
    /\ s2cClosed = [c \in Conns |-> FALSE]
    /\ snd = SndIdle
    /\ wrk = [i \in Workers |-> WrkIdle]
    /\ error_occurred = FALSE
    /\ tx_progress = 0
    /\ tx_complete = <<>>
    /\ DiscoveryOff

\* --------------------------------------------- receiver: connection handler

\* The handler returns: its socket is dropped, and with it what the peer
\* sent and the handler never read.
HndReturn(c, why) ==
    /\ hnd' = [hnd EXCEPT ![c] = [@ EXCEPT !.pc = "done", !.buf = <<>>, !.outcome = why]]
    /\ s2cClosed' = [s2cClosed EXCEPT ![c] = TRUE]
    /\ c2s' = [c2s EXCEPT ![c] = <<>>]

\* ReadHeader answering REJ to a header it does not understand.
ReadHeaderAnswersBad(c) ==
    /\ hnd[c].pc = "header"
    /\ \E i \in {IndexOf(c2s[c], NL)} :
       \E parts \in {Split(SubSeq(c2s[c], 1, i - 1), PIPE)} :
       \E ok \in BOOLEAN :
           IF ~ok
           THEN HndReturn(c, "read_err")
           ELSE IF i = 0
           THEN /\ c2sClosed[c]
                /\ HndReturn(c, "no_header")
           ELSE IF parts[1] = S_REQ /\ Len(parts) >= 3
           THEN /\ hnd' = [hnd EXCEPT ![c] = [@ EXCEPT !.pc = "req_ask", !.verb = "REQ",
                               !.filename = parts[2], !.num = ParseOrZero(parts[3])]]
                /\ c2s' = [c2s EXCEPT ![c] = Drop(c2s[c], i)]
                /\ UNCHANGED s2cClosed
           ELSE IF parts[1] = S_DATA /\ Len(parts) >= 3
           THEN /\ hnd' = [hnd EXCEPT ![c] = [@ EXCEPT !.pc = "data_open", !.verb = "DATA",
                               !.filename = parts[2], !.num = ParseOrZero(parts[3])]]
                /\ c2s' = [c2s EXCEPT ![c] = Drop(c2s[c], i)]
                /\ UNCHANGED s2cClosed
           ELSE HndReturn(c, "bad_header")
    /\ s2c' = [s2c EXCEPT ![c] = IF hnd'[c].outcome = "bad_header" THEN MsgREJ ELSE @]
    /\ UNCHANGED <<discVars, total_size_store, progress_counter, files, rx_requests, rx_progress,
                   rx_complete, c2sClosed, txVars>>

\* Lines 246-266, 288: read the header line byte by byte up to '\n', split it
\* on '|' and dispatch on the verb. A peer that closes before the '\n', or a
\* read that fails, ends the handler.
ReadHeader(c) ==
    /\ hnd[c].pc = "header"
    /\ \E i \in {IndexOf(c2s[c], NL)} :
       \E parts \in {Split(SubSeq(c2s[c], 1, i - 1), PIPE)} :
       \E ok \in BOOLEAN :
           IF ~ok
           THEN HndReturn(c, "read_err")
           ELSE IF i = 0
           THEN /\ c2sClosed[c]
                /\ HndReturn(c, "no_header")
           ELSE IF parts[1] = S_REQ /\ Len(parts) >= 3
           THEN /\ hnd' = [hnd EXCEPT ![c] = [@ EXCEPT !.pc = "req_ask", !.verb = "REQ",
                               !.filename = parts[2], !.num = ParseOrZero(parts[3])]]
                /\ c2s' = [c2s EXCEPT ![c] = Drop(c2s[c], i)]
                /\ UNCHANGED s2cClosed
           ELSE IF parts[1] = S_DATA /\ Len(parts) >= 3
           THEN /\ hnd' = [hnd EXCEPT ![c] = [@ EXCEPT !.pc = "data_open", !.verb = "DATA",
                               !.filename = parts[2], !.num = ParseOrZero(parts[3])]]
                /\ c2s' = [c2s EXCEPT ![c] = Drop(c2s[c], i)]
                /\ UNCHANGED s2cClosed
           ELSE HndReturn(c, "bad_header")
    /\ UNCHANGED <<discVars, total_size_store, progress_counter, files, rx_requests, rx_progress,
                   rx_complete, c2sClosed, s2c, txVars>>

\* ReqAsk with the host's answer recorded but not obeyed.
ReqAskIgnoresAnswer(c) ==
    /\ hnd[c].pc = "req_ask"
    /\ rx_requests' = Append(rx_requests, <<hnd[c].filename, hnd[c].num, PeerIp>>)
    /\ \E accept \in BOOLEAN :
          hnd' = [hnd EXCEPT ![c] = [@ EXCEPT
                     !.pc = "req_create",
                     !.outcome = IF accept THEN "accept" ELSE "reject"]]
    /\ UNCHANGED <<discVars, total_size_store, progress_counter, files, rx_progress, rx_complete,
                   netVars, txVars>>

\* Line 271: the host answers on_receive_request(filename, size, sender_ip).
ReqAsk(c) ==
    /\ hnd[c].pc = "req_ask"
    /\ rx_requests' = Append(rx_requests, <<hnd[c].filename, hnd[c].num, PeerIp>>)
    /\ \E accept \in BOOLEAN :
          hnd' = [hnd EXCEPT ![c] = [@ EXCEPT
                     !.pc = IF accept THEN "req_create" ELSE "req_reject",
                     !.outcome = IF accept THEN "accept" ELSE "reject"]]
    /\ UNCHANGED <<discVars, total_size_store, progress_counter, files, rx_progress, rx_complete,
                   netVars, txVars>>

\* Lines 272-273: File::create(save_dir.join(filename)) creates or truncates
\* the file; it fails where no file can be, and may fail for the disk's reasons.
ReqCreate(c) ==
    /\ hnd[c].pc = "req_create"
    /\ LET path == Resolve(JoinPath(SaveDir, hnd[c].filename))
       IN  \E ok \in BOOLEAN :
              IF ok /\ FileSlot(path) /\ path \in FilePaths
              THEN /\ files' = [files EXCEPT ![path] = FileOf(<<>>)]
                   /\ hnd' = [hnd EXCEPT ![c] = [@ EXCEPT !.pc = "req_set_len", !.path = path]]
              ELSE /\ files' = files
                   /\ hnd' = [hnd EXCEPT ![c] = [@ EXCEPT !.pc = "req_create_err"]]
    /\ UNCHANGED <<discVars, total_size_store, progress_counter, rx_requests, rx_progress, rx_complete,
                   netVars, txVars>>

\* Lines 274-276: file.set_len(size); a failure is logged and ignored.
ReqSetLen(c) ==
    /\ hnd[c].pc = "req_set_len"
    /\ \E ok \in BOOLEAN :
          files' = IF ok THEN [files EXCEPT ![hnd[c].path] = FileOf(SetLen(@.data, hnd[c].num))]
                   ELSE files
    /\ hnd' = [hnd EXCEPT ![c] = [@ EXCEPT !.pc = "req_total"]]
    /\ UNCHANGED <<discVars, total_size_store, progress_counter, rx_requests, rx_progress, rx_complete,
                   netVars, txVars>>

\* Line 277: *total_size_store.lock() = size.
ReqSetTotal(c) ==
    /\ hnd[c].pc = "req_total"
    /\ total_size_store' = hnd[c].num
    /\ hnd' = [hnd EXCEPT ![c] = [@ EXCEPT !.pc = "req_progress"]]
    /\ UNCHANGED <<discVars, progress_counter, files, rx_requests, rx_progress, rx_complete,
                   netVars, txVars>>

\* ReqResetProgress sparing the counter of a transfer still in progress.
ReqResetProgressUnlessReceiving(c) ==
    /\ hnd[c].pc = "req_progress"
    /\ progress_counter' = IF 0 < progress_counter /\ progress_counter < total_size_store
                            THEN progress_counter ELSE 0
    /\ hnd' = [hnd EXCEPT ![c] = [@ EXCEPT !.pc = "req_acc"]]
    /\ UNCHANGED <<discVars, total_size_store, files, rx_requests, rx_progress, rx_complete,
                   netVars, txVars>>

\* Line 278: *progress_counter.lock() = 0.
ReqResetProgress(c) ==
    /\ hnd[c].pc = "req_progress"
    /\ progress_counter' = 0
    /\ hnd' = [hnd EXCEPT ![c] = [@ EXCEPT !.pc = "req_acc"]]
    /\ UNCHANGED <<discVars, total_size_store, files, rx_requests, rx_progress, rx_complete,
                   netVars, txVars>>

\* ReplyOf with the reason of a failed create lost.
ReplyOfPlainRej(pc) == IF pc = "req_acc" THEN MsgACC ELSE MsgREJ

\* The reply of the REQ branch at each of its three ends (lines 280, 282, 285).
ReplyOf(pc) ==
    IF pc = "req_acc" THEN MsgACC
    ELSE IF pc = "req_create_err" THEN MsgREJCreate
    ELSE MsgREJ

\* Lines 280-286: write the reply and return.
ReqReply(c) ==
    /\ hnd[c].pc \in {"req_acc", "req_create_err", "req_reject"}
    /\ s2c' = [s2c EXCEPT ![c] = @ \o ReplyOf(hnd[c].pc)]
    /\ HndReturn(c, IF hnd[c].pc = "req_create_err" THEN "create_err" ELSE hnd[c].outcome)
    /\ UNCHANGED <<discVars, total_size_store, progress_counter, files, rx_requests, rx_progress,
                   rx_complete, c2sClosed, txVars>>

\* Lines 289-305: open save_dir.join(filename) for writing, without creating
\* or truncating it, and seek to the offset; a failure ends the handler.
DataOpen(c) ==
    /\ hnd[c].pc = "data_open"
    /\ LET path == Resolve(JoinPath(SaveDir, hnd[c].filename))
       IN  \E ok \in BOOLEAN :
              IF ok /\ path \in FilePaths /\ files[path].present
              THEN /\ hnd' = [hnd EXCEPT ![c] = [@ EXCEPT !.pc = "data_read", !.path = path,
                                  !.pos = hnd[c].num, !.last_progress_update = 0]]
                   /\ UNCHANGED <<s2cClosed, c2s>>
              ELSE HndReturn(c, "open_err")
    /\ UNCHANGED <<discVars, total_size_store, progress_counter, files, rx_requests, rx_progress,
                   rx_complete, c2sClosed, s2c, txVars>>

\* DataRead reporting a stream that ends as a failed transfer.
DataReadReportsEnd(c) ==
    /\ hnd[c].pc = "data_read"
    /\ \/ /\ c2s[c] # <<>>
          /\ \E n \in 1..Min(Len(c2s[c]), BufLen) :
                /\ hnd' = [hnd EXCEPT ![c] = [@ EXCEPT !.pc = "data_write", !.buf = Take(c2s[c], n)]]
                /\ c2s' = [c2s EXCEPT ![c] = Drop(c2s[c], n)]
          /\ UNCHANGED <<s2cClosed, rx_complete>>
       \/ /\ c2s[c] = <<>>
          /\ c2sClosed[c]
          /\ HndReturn(c, "eof")
          /\ rx_complete' = Append(rx_complete, <<FALSE, hnd[c].filename>>)
       \/ /\ HndReturn(c, "read_err")
          /\ rx_complete' = Append(rx_complete, <<FALSE, hnd[c].filename>>)
    /\ UNCHANGED <<discVars, total_size_store, progress_counter, files, rx_requests, rx_progress,
                   c2sClosed, s2c, txVars>>

\* Lines 310-312, 337: socket.read(&mut buffer) returns between one byte and
\* what has arrived (at most the buffer), 0 at the end of the stream, or an
\* error; the last two end the loop.
DataRead(c) ==
    /\ hnd[c].pc = "data_read"
    /\ \/ /\ c2s[c] # <<>>
          /\ \E n \in 1..Min(Len(c2s[c]), BufLen) :
                /\ hnd' = [hnd EXCEPT ![c] = [@ EXCEPT !.pc = "data_write", !.buf = Take(c2s[c], n)]]
                /\ c2s' = [c2s EXCEPT ![c] = Drop(c2s[c], n)]
          /\ UNCHANGED s2cClosed
       \/ /\ c2s[c] = <<>>
          /\ c2sClosed[c]
          /\ HndReturn(c, "eof")
       \/ HndReturn(c, "read_err")
    /\ UNCHANGED <<discVars, total_size_store, progress_counter, files, rx_requests, rx_progress,
                   rx_complete, c2sClosed, s2c, txVars>>

\* DataWrite reporting success for bytes it has only buffered: nothing reaches
\* the file before the count is added.
DataWriteUnflushed(c) ==
    /\ hnd[c].pc = "data_write"
    /\ \E ok \in BOOLEAN :
          IF ok
          THEN /\ files' = files
               /\ hnd' = [hnd EXCEPT ![c] = [@ EXCEPT !.pc = "data_add",
                              !.pos = @ + Len(hnd[c].buf)]]
               /\ UNCHANGED <<s2cClosed, c2s>>
          ELSE /\ files' = files
               /\ HndReturn(c, "write_err")
    /\ UNCHANGED <<discVars, total_size_store, progress_counter, rx_requests, rx_progress, rx_complete,
                   c2sClosed, s2c, txVars>>

\* Lines 313-316: file.write_all(&buffer[..n]) at the handle's position; a
\* failure ends the loop with nothing counted.
DataWrite(c) ==
    /\ hnd[c].pc = "data_write"
    /\ \E ok \in BOOLEAN :
          IF ok
          THEN /\ files' = [files EXCEPT ![hnd[c].path] =
                               FileOf(WriteAt(@.data, hnd[c].pos, hnd[c].buf))]
               /\ hnd' = [hnd EXCEPT ![c] = [@ EXCEPT !.pc = "data_add",
                              !.pos = @ + Len(hnd[c].buf)]]
               /\ UNCHANGED <<s2cClosed, c2s>>
          ELSE /\ files' = files
               /\ HndReturn(c, "write_err")
    /\ UNCHANGED <<discVars, total_size_store, progress_counter, rx_requests, rx_progress, rx_complete,
                   c2sClosed, s2c, txVars>>

\* DataAdd storing the count of the round instead of adding it.
DataAddOverwrite(c) ==
    /\ hnd[c].pc = "data_add"
    /\ progress_counter' = Len(hnd[c].buf)
    /\ hnd' = [hnd EXCEPT ![c] = [@ EXCEPT !.pc = "data_total",
                   !.current_total = Len(hnd[c].buf)]]
    /\ UNCHANGED <<discVars, total_size_store, files, rx_requests, rx_progress, rx_complete,
                   netVars, txVars>>

\* DataAdd adding to the value the handler saw in its previous round instead
\* of the value the counter holds now.
DataAddFromLocalCopy(c) ==
    /\ hnd[c].pc = "data_add"
    /\ progress_counter' = hnd[c].current_total + Len(hnd[c].buf)
    /\ hnd' = [hnd EXCEPT ![c] = [@ EXCEPT !.pc = "data_total",
                   !.current_total = hnd[c].current_total + Len(hnd[c].buf)]]
    /\ UNCHANGED <<discVars, total_size_store, files, rx_requests, rx_progress, rx_complete,
                   netVars, txVars>>

\* Lines 318-321: under the lock, *p += n; current_total = *p.
DataAdd(c) ==
    /\ hnd[c].pc = "data_add"
    /\ progress_counter' = progress_counter + Len(hnd[c].buf)
    /\ hnd' = [hnd EXCEPT ![c] = [@ EXCEPT !.pc = "data_total",
                   !.current_total = progress_counter + Len(hnd[c].buf)]]
    /\ UNCHANGED <<discVars, total_size_store, files, rx_requests, rx_progress, rx_complete,
                   netVars, txVars>>

\* Line 323: total = *total_size_store.lock().
DataTotal(c) ==
    /\ hnd[c].pc = "data_total"
    /\ hnd' = [hnd EXCEPT ![c] = [@ EXCEPT !.pc = "data_notify", !.total = total_size_store]]
    /\ UNCHANGED <<discVars, total_size_store, progress_counter, files, rx_requests, rx_progress,
                   rx_complete, netVars, txVars>>

\* a - b > limit in u64 arithmetic without overflow checks: when a < b the
\* difference wraps to 2^64 - (b - a), which exceeds every limit the model
\* uses (b - a stays below 2^31).
WrappingSubExceeds(a, b, limit) == IF a >= b THEN a - b > limit ELSE TRUE

\* Line 325: the condition of the on_progress call.
ProgressDue(current_total, last_progress_update, total) ==
    \/ WrappingSubExceeds(current_total, last_progress_update, ProgressStride)
    \/ current_total = total

\* CompleteDue firing from the first byte of a session on.
CompleteDueFromFirstByte(current_total, total) == current_total > 0 /\ total > 0

\* CompleteDue firing only once the counter has passed the total.
CompleteDuePastTotal(current_total, total) == current_total > total /\ total > 0

\* Line 330: the condition of the on_complete call.
CompleteDue(current_total, total) == current_total >= total /\ total > 0

\* DataNotify testing the completion on the counter as it is now, not on the
\* value the handler read back after its addition.
DataNotifyReadsCounter(c) ==
    /\ hnd[c].pc = "data_notify"
    /\ LET h == hnd[c]
           due == ProgressDue(h.current_total, h.last_progress_update, h.total)
       IN  /\ rx_progress' = IF due THEN rx_progress \cup {<<h.current_total, h.total>>}
                             ELSE rx_progress
           /\ rx_complete' = IF CompleteDue(progress_counter, h.total)
                             THEN Append(rx_complete, <<TRUE, h.filename>>)
                             ELSE rx_complete
           /\ hnd' = [hnd EXCEPT ![c] = [h EXCEPT !.pc = "data_read", !.buf = <<>>,
                          !.last_progress_update =
                              IF due THEN h.current_total ELSE h.last_progress_update]]
           /\ UNCHANGED <<s2cClosed, c2s>>
    /\ UNCHANGED <<discVars, total_size_store, progress_counter, files, rx_requests,
                   c2sClosed, s2c, txVars>>

\* Lines 325-334: the two notifications of one loop round. An underflowing
\* subtraction panics in a build with overflow checks (the handler thread
\* dies) and wraps in one without.
DataNotify(c) ==
    /\ hnd[c].pc = "data_notify"
    /\ LET h == hnd[c]
           due == ProgressDue(h.current_total, h.last_progress_update, h.total)
       IN  \/ /\ h.current_total < h.last_progress_update
              /\ HndReturn(c, "panic")
              /\ UNCHANGED <<rx_progress, rx_complete>>
           \/ /\ rx_progress' = IF due THEN rx_progress \cup {<<h.current_total, h.total>>}
                                ELSE rx_progress
              /\ rx_complete' = IF CompleteDue(h.current_total, h.total)
                                THEN Append(rx_complete, <<TRUE, h.filename>>)
                                ELSE rx_complete
              /\ hnd' = [hnd EXCEPT ![c] = [h EXCEPT !.pc = "data_read", !.buf = <<>>,
                             !.last_progress_update =
                                 IF due THEN h.current_total ELSE h.last_progress_update]]
              /\ UNCHANGED <<s2cClosed, c2s>>
    /\ UNCHANGED <<discVars, total_size_store, progress_counter, files, rx_requests,
                   c2sClosed, s2c, txVars>>

\* One step of the handler thread of connection c.
Handler(c) ==
    \/ ReadHeader(c)
    \/ ReqAsk(c)
    \/ ReqCreate(c)
    \/ ReqSetLen(c)
    \/ ReqSetTotal(c)
    \/ ReqResetProgress(c)
    \/ ReqReply(c)
    \/ DataOpen(c)
    \/ DataRead(c)
    \/ DataWrite(c)
    \/ DataAdd(c)
    \/ DataTotal(c)
    \/ DataNotify(c)

\* ------------------------------------------------------------------ sender

\* File names and contents of the source files send_file is given. A name is
\* the last component of file_path (path.file_name()); it has no '/' and, as
\* the frames are '|'-delimited lines, no '|' and no line break.
FileNames == {PlainName}

SrcBytes == <<"a", "b", "c", "d", "e", "f", "g", "h">>

\* The source file of length len: byte k differs from its neighbours.
SrcData(len) == [k \in 1..len |-> SrcBytes[((k - 1) % Len(SrcBytes)) + 1]]

\* format!("REQ|{}|{}\n", file_name, file_len)
ReqFrame(file_name, file_len) ==
    S_REQ \o <<PIPE>> \o file_name \o <<PIPE>> \o FormatU64(file_len) \o <<NL>>

\* format!("DATA|{}|{}\n", filename, offset)
DataFrame(filename, offset) ==
    S_DATA \o <<PIPE>> \o filename \o <<PIPE>> \o FormatU64(offset) \o <<NL>>

\* Lines 385, 401-405: the byte range of worker i.
\* ChunkSize rounding up.
ChunkSizeCeil(file_len, parallel_cnt) == (file_len + parallel_cnt - 1) \div parallel_cnt

ChunkSize(file_len, parallel_cnt) == file_len \div parallel_cnt

ChunkStart(i, file_len, parallel_cnt) == i * ChunkSize(file_len, parallel_cnt)

\* ChunkLength without the remainder the last worker takes.
ChunkLengthNoRemainder(i, file_len, parallel_cnt) == ChunkSize(file_len, parallel_cnt)

ChunkLength(i, file_len, parallel_cnt) ==
    IF i = parallel_cnt - 1
    THEN file_len - ChunkStart(i, file_len, parallel_cnt)
    ELSE ChunkSize(file_len, parallel_cnt)

\* The (start, length) of every worker, in the order the loop spawns them.
ChunkPlan(file_len, parallel_cnt) ==
    [k \in 1..parallel_cnt |->
        [start |-> ChunkStart(k - 1, file_len, parallel_cnt),
         length |-> ChunkLength(k - 1, file_len, parallel_cnt)]]

\* Accepted testing for the refusal instead of the acceptance.
AcceptedUnlessREJ(response) == ~StartsWith(response, <<"R", "E", "J">>)

\* Line 377: response.starts_with("ACC").
Accepted(response) == StartsWith(response, S_ACC)

\* callback.on_complete(success, msg) of the sender's callback. The model
\* writes the messages of lines 353, 364, 378, 422 and 424 in English.
TxComplete(success, msg) == tx_complete' = Append(tx_complete, <<success, msg>>)

\* What reaches the listener when the peer writes bytes on connection c: a
\* handler that has returned reads nothing any more.
Deliver(c, bytes) ==
    c2s' = [c2s EXCEPT ![c] = IF s2cClosed[c] THEN @ ELSE @ \o bytes]

\* The listener accepts connection c and spawns its handler (lines 221-231).
Accept(c) == hnd' = [hnd EXCEPT ![c] = [HndFree EXCEPT !.pc = "header"]]

\* The host calls send_file(target_ip, port, file_path, parallel_cnt, callback).
SendFile ==
    /\ snd.pc = "idle"
    /\ \E exists \in BOOLEAN, file_name \in FileNames, file_len \in 0..MaxFileLen,
          parallel_cnt \in 0..MaxPar :
          snd' = [snd EXCEPT !.pc = "start", !.exists = exists,
                     !.file_name = IF exists THEN file_name ELSE <<>>,
                     !.file_len = IF exists THEN file_len ELSE 0,
                     !.parallel_cnt = parallel_cnt]
    /\ UNCHANGED <<discVars, rxVars, netVars, wrk, error_occurred, tx_progress, tx_complete>>

\* SfCheck going on to the handshake whether the file exists or not.
SfCheckIgnoresMissing ==
    /\ snd.pc = "start"
    /\ snd' = [snd EXCEPT !.pc = "connect"]
    /\ UNCHANGED tx_complete
    /\ UNCHANGED <<discVars, rxVars, netVars, wrk, error_occurred, tx_progress>>

\* Lines 351-358: a missing file ends the call with on_complete(false).
SfCheck ==
    /\ snd.pc = "start"
    /\ IF snd.exists
       THEN /\ snd' = [snd EXCEPT !.pc = "connect"]
            /\ UNCHANGED tx_complete
       ELSE /\ snd' = [snd EXCEPT !.pc = "done"]
            /\ TxComplete(FALSE, "file does not exist")
    /\ UNCHANGED <<discVars, rxVars, netVars, wrk, error_occurred, tx_progress>>

\* Lines 361-367: the handshake connection; a failed connect ends the call.
SfConnect ==
    /\ snd.pc = "connect"
    /\ \E ok \in BOOLEAN :
          IF ok
          THEN /\ Accept(0)
               /\ snd' = [snd EXCEPT !.pc = "send_req"]
               /\ UNCHANGED tx_complete
          ELSE /\ snd' = [snd EXCEPT !.pc = "done"]
               /\ TxComplete(FALSE, "connection failed")
               /\ UNCHANGED hnd
    /\ UNCHANGED <<discVars, total_size_store, progress_counter, files, rx_requests, rx_progress,
                   rx_complete, netVars, wrk, error_occurred, tx_progress>>

\* Lines 369-370: let _ = stream.write_all(req_msg): a failed write is ignored.
SfSendReq ==
    /\ snd.pc = "send_req"
    /\ \E ok \in BOOLEAN :
          IF ok THEN Deliver(0, ReqFrame(snd.file_name, snd.file_len)) ELSE c2s' = c2s
    /\ snd' = [snd EXCEPT !.pc = "read_resp"]
    /\ UNCHANGED <<discVars, rxVars, c2sClosed, s2c, s2cClosed, wrk, error_occurred, tx_progress,
                   tx_complete>>

\* Lines 373-382: one read of the reply: some or all of the bytes that have
\* arrived, none when the peer has closed or the read fails (unwrap_or(0));
\* anything not starting with ACC ends the call. Either way the handshake
\* stream is dropped.
SfReadResp ==
    /\ snd.pc = "read_resp"
    /\ \E n \in 0..Len(s2c[0]) : \E response \in {Take(s2c[0], n)} :
          /\ IF Accepted(response)
             THEN /\ snd' = [snd EXCEPT !.pc = "spawn", !.read_done = TRUE,
                                        !.response = response]
                  /\ UNCHANGED tx_complete
             ELSE /\ snd' = [snd EXCEPT !.pc = "done", !.read_done = TRUE,
                                        !.response = response]
                  /\ TxComplete(FALSE, "peer rejected")
    /\ s2c' = [s2c EXCEPT ![0] = <<>>]
    /\ c2sClosed' = [c2sClosed EXCEPT ![0] = TRUE]
    /\ UNCHANGED <<discVars, rxVars, c2s, s2cClosed, wrk, error_occurred, tx_progress>>

\* Lines 385-414: the chunk plan and the worker threads. A parallel_cnt of 0
\* divides by zero: the thread panics and nothing more happens.
SfSpawn ==
    /\ snd.pc = "spawn"
    /\ IF snd.parallel_cnt = 0
       THEN /\ snd' = [snd EXCEPT !.pc = "panicked"]
            /\ UNCHANGED wrk
       ELSE LET plan == ChunkPlan(snd.file_len, snd.parallel_cnt)
            IN  /\ snd' = [snd EXCEPT !.pc = "join", !.plan = plan]
                /\ wrk' = [i \in Workers |->
                              IF i < snd.parallel_cnt
                              THEN [pc |-> "open", start |-> plan[i + 1].start,
                                    length |-> plan[i + 1].length, sent |-> 0,
                                    failed |-> FALSE]
                              ELSE wrk[i]]
    /\ UNCHANGED <<discVars, rxVars, netVars, error_occurred, tx_progress, tx_complete>>

\* Lines 407-412: send_chunk returned an error: the stream is dropped and the
\* worker sets the shared flag.
WorkerFail(i) ==
    /\ wrk' = [wrk EXCEPT ![i] = [@ EXCEPT !.pc = "done", !.failed = TRUE]]
    /\ error_occurred' = TRUE

\* Lines 438-439: File::open(path) and seek(offset).
ChunkOpen(i) ==
    /\ wrk[i].pc = "open"
    /\ \E ok \in BOOLEAN :
          IF ok
          THEN /\ wrk' = [wrk EXCEPT ![i] = [@ EXCEPT !.pc = "connect"]]
               /\ UNCHANGED error_occurred
          ELSE WorkerFail(i)
    /\ UNCHANGED <<discVars, rxVars, netVars, snd, tx_progress, tx_complete>>

\* Lines 441-442: the worker's own connection.
ChunkConnect(i) ==
    /\ wrk[i].pc = "connect"
    /\ \E ok \in BOOLEAN :
          IF ok
          THEN /\ wrk' = [wrk EXCEPT ![i] = [@ EXCEPT !.pc = "header"]]
               /\ Accept(i + 1)
               /\ UNCHANGED error_occurred
          ELSE /\ WorkerFail(i)
               /\ UNCHANGED hnd
    /\ UNCHANGED <<discVars, total_size_store, progress_counter, files, rx_requests, rx_progress,
                   rx_complete, netVars, snd, tx_progress, tx_complete>>

\* ChunkHeader writing the header line twice.
ChunkHeaderRepeated(i) ==
    /\ wrk[i].pc = "header"
    /\ \E ok \in BOOLEAN :
          IF ok
          THEN /\ wrk' = [wrk EXCEPT ![i] = [@ EXCEPT !.pc = "loop"]]
               /\ Deliver(i + 1, DataFrame(snd.file_name, wrk[i].start)
                                     \o DataFrame(snd.file_name, wrk[i].start))
               /\ UNCHANGED <<error_occurred, c2sClosed>>
          ELSE /\ WorkerFail(i)
               /\ c2sClosed' = [c2sClosed EXCEPT ![i + 1] = TRUE]
               /\ UNCHANGED c2s
    /\ UNCHANGED <<discVars, rxVars, s2c, s2cClosed, snd, tx_progress, tx_complete>>

\* Lines 445-446: the DATA header line.
ChunkHeader(i) ==
    /\ wrk[i].pc = "header"
    /\ \E ok \in BOOLEAN :
          IF ok
          THEN /\ wrk' = [wrk EXCEPT ![i] = [@ EXCEPT !.pc = "loop"]]
               /\ Deliver(i + 1, DataFrame(snd.file_name, wrk[i].start))
               /\ UNCHANGED <<error_occurred, c2sClosed>>
          ELSE /\ WorkerFail(i)
               /\ c2sClosed' = [c2sClosed EXCEPT ![i + 1] = TRUE]
               /\ UNCHANGED c2s
    /\ UNCHANGED <<discVars, rxVars, s2c, s2cClosed, snd, tx_progress, tx_complete>>

\* Lines 449-455, 462: read the next bytes of the chunk (at most a buffer,
\* never past offset + length) and write them to the stream; at the end of
\* the chunk send_chunk returns Ok and the stream is dropped.
ChunkSend(i) ==
    /\ wrk[i].pc = "loop"
    /\ LET n == Min(wrk[i].length - wrk[i].sent, BufLen)
           from == wrk[i].start + wrk[i].sent
       IN  IF n = 0
           THEN /\ wrk' = [wrk EXCEPT ![i] = [@ EXCEPT !.pc = "done"]]
                /\ c2sClosed' = [c2sClosed EXCEPT ![i + 1] = TRUE]
                /\ UNCHANGED <<c2s, error_occurred>>
           ELSE \E ok \in BOOLEAN :
                   IF ok
                   THEN /\ Deliver(i + 1, SubSeq(SrcData(snd.file_len), from + 1, from + n))
                        /\ wrk' = [wrk EXCEPT ![i] = [@ EXCEPT !.pc = "progress"]]
                        /\ UNCHANGED <<error_occurred, c2sClosed>>
                   ELSE /\ WorkerFail(i)
                        /\ c2sClosed' = [c2sClosed EXCEPT ![i + 1] = TRUE]
                        /\ UNCHANGED c2s
    /\ UNCHANGED <<discVars, rxVars, s2c, s2cClosed, snd, tx_progress, tx_complete>>

\* Lines 458-460: *progress.lock() += n.
ChunkProgress(i) ==
    /\ wrk[i].pc = "progress"
    /\ LET n == Min(wrk[i].length - wrk[i].sent, BufLen)
       IN  /\ tx_progress' = tx_progress + n
           /\ wrk' = [wrk EXCEPT ![i] = [@ EXCEPT !.pc = "loop", !.sent = @ + n]]
    /\ UNCHANGED <<discVars, rxVars, netVars, snd, error_occurred, tx_complete>>

\* One step of worker thread i (send_chunk).
Worker(i) ==
    \/ ChunkOpen(i)
    \/ ChunkConnect(i)
    \/ ChunkHeader(i)
    \/ ChunkSend(i)
    \/ ChunkProgress(i)

\* JoinReport with the failure branch lost: a failed transfer reports nothing.
JoinReportSilentOnError ==
    IF error_occurred
    THEN UNCHANGED tx_complete
    ELSE TxComplete(TRUE, "send completed")

\* Lines 421-425: the outcome send_file reports once the workers are joined.
JoinReport ==
    IF error_occurred
    THEN TxComplete(FALSE, "transfer error")
    ELSE TxComplete(TRUE, "send completed")

\* SfJoin waiting for the first worker only.
SfJoinFirstWorker ==
    /\ snd.pc = "join"
    /\ wrk[0].pc = "done"
    /\ snd' = [snd EXCEPT !.pc = "done"]
    /\ JoinReport
    /\ UNCHANGED <<discVars, rxVars, netVars, wrk, error_occurred, tx_progress>>

\* Lines 417-425: join every worker, then the one on_complete of the call.
SfJoin ==
    /\ snd.pc = "join"
    /\ \A i \in Workers : i < snd.parallel_cnt => wrk[i].pc = "done"
    /\ snd' = [snd EXCEPT !.pc = "done"]
    /\ JoinReport
    /\ UNCHANGED <<discVars, rxVars, netVars, wrk, error_occurred, tx_progress>>

\* ----------------------------------------------------------- specification

\* One send_file call of the host against the listener.
Next ==
    \/ SendFile
    \/ SfCheck
    \/ SfConnect
    \/ SfSendReq
    \/ SfReadResp
    \/ SfSpawn
    \/ SfJoin
    \/ \E i \in Workers : Worker(i)
    \/ \E c \in Conns : Handler(c)

Spec == Init /\ [][Next]_vars

\* One step of the thread send_file spawns.
SenderThread == SfCheck \/ SfConnect \/ SfSendReq \/ SfReadResp \/ SfSpawn \/ SfJoin

\* Every thread is an OS thread (thread::spawn at lines 229, 350, 407): one
\* that can take a step eventually takes it.
FairSpec ==
    /\ Spec
    /\ WF_vars(SenderThread)
    /\ \A i \in Workers : WF_vars(Worker(i))
    /\ \A c \in Conns : WF_vars(Handler(c))

\* ------------------------------------------------ the listener, any peer

PeerConns == 0..(Min(MaxPeerConns, MaxPar + 1) - 1)

\* What a peer may send on a connection before closing it: REQ and DATA
\* frames with plain and with path-like names, and frames that are no frame.
PeerFrames ==
    {ReqFrame(PlainName, 1), ReqFrame(PlainName, 2),
     ReqFrame(ParentName, 1), ReqFrame(AbsName, 1),
     DataFrame(PlainName, 0) \o <<"a", "b">>,
     DataFrame(ParentName, 0) \o <<"a">>,
     S_REQ, <<"H", "I", NL>>,
     S_DATA \o <<PIPE, "f", NL>>, S_REQ \o <<PIPE, "f", NL>>}

\* A peer connects, sends a frame and closes its side; connections are
\* numbered in the order they are accepted.
PeerConnect(c, frame) ==
    /\ hnd[c].pc = "free"
    /\ IF c = 0 THEN TRUE ELSE hnd[c - 1].pc # "free"
    /\ Accept(c)
    /\ c2s' = [c2s EXCEPT ![c] = frame]
    /\ c2sClosed' = [c2sClosed EXCEPT ![c] = TRUE]
    /\ UNCHANGED <<discVars, total_size_store, progress_counter, files, rx_requests, rx_progress,
                   rx_complete, s2c, s2cClosed, txVars>>

NextOpen ==
    \/ \E c \in PeerConns, frame \in PeerFrames : PeerConnect(c, frame)
    \/ \E c \in Conns : Handler(c)

OpenSpec == Init /\ [][NextOpen]_vars

\* ------------------------------------------- the listener, one session

\* The frames of a transfer of a two-byte file in two chunks.
SessionFrames ==
    {ReqFrame(PlainName, 2),
     DataFrame(PlainName, 0) \o <<"a", "b">>,
     DataFrame(PlainName, 1) \o <<"b">>}

\* Peers open every connection the listener has room for, each with a REQ
\* or a DATA frame of the session, in any order.
NextSession ==
    \/ \E c \in Conns, frame \in SessionFrames : PeerConnect(c, frame)
    \/ \E c \in Conns : Handler(c)

SessionSpec == Init /\ [][NextSession]_vars

\* ------------------------------------------------------- the chunk plan

\* send_file at the point where it plans the chunks, for every file length
\* and parallel_cnt up to the bounds.
InitPlan ==
    /\ total_size_store = 0
    /\ progress_counter = 0
    /\ files = [p \in FilePaths |-> NoFile]
    /\ hnd = [c \in Conns |-> HndFree]
    /\ rx_requests = <<>>
    /\ rx_progress = {}
    /\ rx_complete = <<>>
    /\ c2s = [c \in Conns |-> <<>>]
    /\ c2sClosed = [c \in Conns |-> FALSE]
    /\ s2c = [c \in Conns |-> <<>>]
    /\ s2cClosed = [c \in Conns |-> FALSE]
    /\ \E file_len \in 0..PlanMaxLen, parallel_cnt \in 0..PlanMaxPar :
          snd = [SndIdle EXCEPT !.pc = "spawn", !.exists = TRUE, !.file_name = PlainName,
                    !.file_len = file_len, !.parallel_cnt = parallel_cnt,
                    !.read_done = TRUE, !.response = MsgACC]
    /\ wrk = [i \in Workers |-> WrkIdle]
    /\ error_occurred = FALSE
    /\ tx_progress = 0
    /\ tx_complete = <<>>
    /\ DiscoveryOff

NextPlan == SfSpawn

PlanSpec == InitPlan /\ [][NextPlan]_vars

\* ----------------------------------------------------------- discovery

\* The port every parse failure and every short DISCOVER falls back to.
DefaultPort == 4060

S_DISCOVER == <<"D", "I", "S", "C", "O", "V", "E", "R", PIPE>>
S_HERE == <<"H", "E", "R", "E", PIPE>>

\* format!("DISCOVER|{}|{}|{}", device_id, device_name, port)
DiscoverMsg(device_id, device_name, port) ==
    S_DISCOVER \o device_id \o <<PIPE>> \o device_name \o <<PIPE>> \o FormatU64(port)

\* format!("HERE|{}|{}|{}", device_id, device_name, port)
HereMsg(device_id, device_name, port) ==
    S_HERE \o device_id \o <<PIPE>> \o device_name \o <<PIPE>> \o FormatU64(port)

\* str::parse::<u16>(): as for u64, and Err above 65535; -1 stands for Err.
ParseU16(s) == IF ParseU64(s) > 65535 THEN -1 ELSE ParseU64(s)

\* parts[3].parse().unwrap_or(4060)
PortOrDefault(s) == IF ParseU16(s) = -1 THEN DefaultPort ELSE ParseU16(s)

\* SelfEcho looking at the datagrams of four fields only.
SelfEchoOfFour(parts, self_id_check) == Len(parts) = 4 /\ parts[2] = self_id_check

\* Line 69: the datagram carries the listener's own device_id.
SelfEcho(parts, self_id_check) == Len(parts) > 1 /\ parts[2] = self_id_check

\* DeviceInfoOf trusting an address the datagram carries in its name field.
DeviceInfoFromFields(parts, addr) ==
    [device_id |-> parts[2], name |-> parts[3], ip |-> parts[3],
     control_port |-> PortOrDefault(parts[4])]

\* Lines 76-81, 103-108: the DeviceInfo of a datagram of four fields.
DeviceInfoOf(parts, addr) ==
    [device_id |-> parts[2], name |-> parts[3], ip |-> addr,
     control_port |-> PortOrDefault(parts[4])]

\* Lines 85-90: the reply carries the port start_listening was given.
HereResponse(cfg) == HereMsg(cfg.device_id, cfg.device_name, cfg.port)

\* TargetPort with every reply sent to the default port.
TargetPortDefault(parts) == DefaultPort

\* Line 92: the port the reply is sent to.
TargetPort(parts) ==
    IF Len(parts) = 4 THEN PortOrDefault(parts[4]) ELSE DefaultPort

\* The calls one round of the loop makes, in order: on_device_found(device)
\* and socket.send_to(response, ip:port).
FoundEvent(device) == <<"found", device>>
SendEvent(msg, ip, port) == <<"send", [msg |-> msg, ip |-> ip, port |-> port]>>

\* OnDatagram answering a HERE as it answers a DISCOVER.
OnDatagramAnswersHere(cfg, msg, addr) ==
    LET parts == Split(msg, PIPE)
    IN  IF SelfEcho(parts, cfg.device_id) THEN <<>>
        ELSE IF StartsWith(msg, S_DISCOVER) \/ StartsWith(msg, S_HERE)
        THEN (IF Len(parts) = 4 THEN <<FoundEvent(DeviceInfoOf(parts, addr))>> ELSE <<>>)
             \o <<SendEvent(HereResponse(cfg), addr, TargetPort(parts))>>
        ELSE <<>>

\* OnDatagram calling on_device_found for every DISCOVER and HERE.
OnDatagramAnyFields(cfg, msg, addr) ==
    LET parts == Split(msg, PIPE) \o <<<<>>, <<>>, <<>>>>
    IN  IF SelfEcho(parts, cfg.device_id) THEN <<>>
        ELSE IF StartsWith(msg, S_DISCOVER)
        THEN <<FoundEvent(DeviceInfoOf(parts, addr)),
               SendEvent(HereResponse(cfg), addr, TargetPort(parts))>>
        ELSE IF StartsWith(msg, S_HERE)
        THEN <<FoundEvent(DeviceInfoOf(parts, addr))>>
        ELSE <<>>

\* Lines 66-112: what one round of the listener's loop does with the
\* datagram msg received from address addr.
OnDatagram(cfg, msg, addr) ==
    LET parts == Split(msg, PIPE)
    IN  IF SelfEcho(parts, cfg.device_id) THEN <<>>
        ELSE IF StartsWith(msg, S_DISCOVER)
        THEN (IF Len(parts) = 4 THEN <<FoundEvent(DeviceInfoOf(parts, addr))>> ELSE <<>>)
             \o <<SendEvent(HereResponse(cfg), addr, TargetPort(parts))>>
        ELSE IF StartsWith(msg, S_HERE)
        THEN IF Len(parts) = 4 THEN <<FoundEvent(DeviceInfoOf(parts, addr))>> ELSE <<>>
        ELSE <<>>

\* A datagram on the network.
Datagram(dst, dst_port, src, msg) ==
    [dst |-> dst, dst_port |-> dst_port, src |-> src, msg |-> msg]

\* The datagrams the send_to calls among events put on the network; one to
\* an address where nothing listens is lost.
Replies(e, events) ==
    {Datagram(IpOf(x), events[k][2].port, IpOf(e), events[k][2].msg) :
        <<x, k>> \in {<<x, k>> \in Endpoints \X DOMAIN events :
            /\ events[k][1] = "send"
            /\ events[k][2].ip = IpOf(x)
            /\ listener[x].on
            /\ listener[x].port = events[k][2].port}}

\* Lines 57-113: recv_from returns a datagram sent to the listener's port and
\* the loop handles it; a reply may be lost on its way (or send_to fail,
\* which is logged and ignored).
RecvFrom(e) ==
    /\ listener[e].on
    /\ \E d \in udp_net :
          /\ d.dst = IpOf(e)
          /\ d.dst_port = listener[e].port
          /\ \E events \in {OnDatagram(listener[e], d.msg, d.src)} :
             \E arrives \in BOOLEAN :
                /\ udp_log' = Append(udp_log, [at |-> e, msg |-> d.msg, addr |-> d.src,
                                               events |-> events])
                /\ udp_net' = (udp_net \ {d}) \cup
                                  (IF arrives THEN Replies(e, events) ELSE {})
    /\ UNCHANGED <<rxVars, netVars, txVars, listener, udp_sends, if_addrs, broadcasts, devices>>

\* Lines 147-160: send_discover_once(port, device_id, device_name) of host e,
\* called with the arguments of its start_listening: one DISCOVER to every
\* broadcast address, which reaches every host of the network, e included.
SendDiscoverOnce(e) ==
    /\ listener[e].on
    /\ udp_sends < MaxDatagrams
    /\ udp_sends' = udp_sends + 1
    /\ udp_net' = udp_net \cup
           {Datagram(IpOf(x), listener[e].port, IpOf(e),
                     DiscoverMsg(listener[e].device_id, listener[e].device_name,
                                 listener[e].port)) : x \in Endpoints}
    /\ UNCHANGED <<rxVars, netVars, txVars, listener, udp_log, if_addrs, broadcasts, devices>>

\* The addresses datagrams of other machines come from.
PeerIps == {"10.0.0.9", "10.0.0.5"}

IdB == <<"B">>
IdX == <<"X">>
NameX == <<"1", "0", ".", "0", ".", "0", ".", "1">>
Verb(v, rest) == v \o <<PIPE>> \o rest

\* What a peer may send to the discovery port: well-formed and short and long
\* DISCOVER and HERE datagrams, ports that are no port, the listener's own
\* id, and other verbs.
PeerMsgs ==
    {DiscoverMsg(IdX, NameX, 4061),
     DiscoverMsg(IdB, NameX, 4061),
     S_DISCOVER \o IdX \o <<PIPE>> \o NameX \o <<PIPE, "z">>,
     DiscoverMsg(IdX, NameX, 70000),
     S_DISCOVER \o IdX,
     S_DISCOVER \o IdB,
     DiscoverMsg(IdX, NameX, 4061) \o <<PIPE, "1">>,
     HereMsg(IdX, NameX, 4061),
     HereMsg(IdB, NameX, 4061),
     S_HERE \o IdX \o <<PIPE>> \o NameX \o <<PIPE, "z">>,
     S_HERE \o IdX \o <<PIPE>> \o NameX,
     Verb(<<"P", "I", "N", "G">>, IdB),
     Verb(<<"P", "I", "N", "G">>, IdX \o <<PIPE>> \o NameX \o <<PIPE, "1">>),
     <<"D", "I", "S", "C", "O", "V", "E", "R">>,
     <<>>}

\* A machine at address src sends msg to the discovery port of host e.
PeerSendUdp(e, src, msg) ==
    /\ listener[e].on
    /\ udp_sends < MaxDatagrams
    /\ udp_sends' = udp_sends + 1
    /\ udp_net' = udp_net \cup {Datagram(IpOf(e), listener[e].port, src, msg)}
    /\ UNCHANGED <<rxVars, netVars, txVars, listener, udp_log, if_addrs, broadcasts, devices>>

\* start_listening(port, device_id, device_name, callback) of host e, whose
\* start_file_server runs on server_port.
Listening(e, port, server_port) ==
    [on |-> TRUE, port |-> port, device_id |-> <<e>>, device_name |-> <<e, e>>,
     server_port |-> server_port]

\* The ports the listener of DiscSpec is started on.
DiscPorts == {4060, 5000}
ServerPort == 4061

\* Host B listens; machines of the network send it what they like.
InitDisc ==
    /\ total_size_store = 0
    /\ progress_counter = 0
    /\ files = [p \in FilePaths |-> NoFile]
    /\ hnd = [c \in Conns |-> HndFree]
    /\ rx_requests = <<>>
    /\ rx_progress = {}
    /\ rx_complete = <<>>
    /\ c2s = [c \in Conns |-> <<>>]
    /\ c2sClosed = [c \in Conns |-> FALSE]
    /\ s2c = [c \in Conns |-> <<>>]
    /\ s2cClosed = [c \in Conns |-> FALSE]
    /\ snd = SndIdle
    /\ wrk = [i \in Workers |-> WrkIdle]
    /\ error_occurred = FALSE
    /\ tx_progress = 0
    /\ tx_complete = <<>>
    /\ \E port \in DiscPorts :
          listener = [e \in Endpoints |->
                         IF e = "B" THEN Listening(e, port, ServerPort) ELSE NoListener]
    /\ udp_net = {}
    /\ udp_log = <<>>
    /\ udp_sends = 0
    /\ BroadcastsOff
    /\ NoDevices

NextDisc ==
    \/ \E src \in PeerIps, msg \in PeerMsgs : PeerSendUdp("B", src, msg)
    \/ \E e \in Endpoints : RecvFrom(e)

DiscSpec == InitDisc /\ [][NextDisc]_vars

\* Hosts A and B both listen on the default port and discover each other;
\* a third machine sends them HERE datagrams.
InitExchange ==
    /\ total_size_store = 0
    /\ progress_counter = 0
    /\ files = [p \in FilePaths |-> NoFile]
    /\ hnd = [c \in Conns |-> HndFree]
    /\ rx_requests = <<>>
    /\ rx_progress = {}
    /\ rx_complete = <<>>
    /\ c2s = [c \in Conns |-> <<>>]
    /\ c2sClosed = [c \in Conns |-> FALSE]
    /\ s2c = [c \in Conns |-> <<>>]
    /\ s2cClosed = [c \in Conns |-> FALSE]
    /\ snd = SndIdle
    /\ wrk = [i \in Workers |-> WrkIdle]
    /\ error_occurred = FALSE
    /\ tx_progress = 0
    /\ tx_complete = <<>>
    /\ listener = [e \in Endpoints |-> Listening(e, DefaultPort, ServerPort)]
    /\ udp_net = {}
    /\ udp_log = <<>>
    /\ udp_sends = 0
    /\ BroadcastsOff
    /\ NoDevices

ExchangeMsgs == {HereMsg(IdX, NameX, 4061), HereMsg(IdX, NameX, DefaultPort)}

NextExchange ==
    \/ \E e \in Endpoints : SendDiscoverOnce(e)
    \/ \E e \in Endpoints, msg \in ExchangeMsgs : PeerSendUdp(e, "10.0.0.9", msg)
    \/ \E e \in Endpoints : RecvFrom(e)

ExchangeSpec == InitExchange /\ [][NextExchange]_vars

\* ------------------------------------------------------------------ claims

Range(f) == {f[x] : x \in DOMAIN f}

\* The file a transfer of file_name lands in.
TargetOf(file_name) == Resolve(JoinPath(SaveDir, file_name))

\* Every handler thread has returned (or was never spawned).
HandlersQuiet == \A c \in Conns : hnd[c].pc \in {"free", "done"}

\* C1: a send_file call on an existing file with parallel_cnt >= 1 never
\* calls on_complete twice, has called it exactly once when its thread has
\* ended, and its thread does end (the threads being scheduled fairly),
\* whether the connection fails, the peer rejects, workers fail or all goes
\* well.
C1_ExactlyOneComplete ==
    /\ [](Len(tx_complete) <= 1)
    /\ [](snd.pc = "done" <=> Len(tx_complete) = 1)
    /\ (snd.pc = "start" /\ snd.exists /\ snd.parallel_cnt >= 1)
          ~> (snd.pc = "done" /\ Len(tx_complete) = 1)

\* A call that ran its workers, one of which failed, and reported once.
C1_Witness ==
    /\ snd.pc = "done"
    /\ snd.parallel_cnt >= 2
    /\ error_occurred
    /\ \E i \in Workers : wrk[i].pc = "done" /\ wrk[i].sent = wrk[i].length /\ wrk[i].length > 0
    /\ tx_complete = <<<<FALSE, "transfer error">>>>

\* The transfer went through: the REQ was accepted, the sender reported
\* success, and every DATA handler read its stream to the end without error.
TransferSucceeded ==
    /\ snd.pc = "done"
    /\ tx_complete = <<<<TRUE, "send completed">>>>
    /\ hnd[0].pc = "done" /\ hnd[0].outcome = "accept"
    /\ \A i \in Workers :
          i < snd.parallel_cnt => hnd[i + 1].pc = "done" /\ hnd[i + 1].outcome = "eof"

\* C2: after a successful transfer the receiver's file holds exactly the
\* bytes of the source file, whatever the order of the DATA handlers' writes.
C2_FileEqualsSource ==
    TransferSucceeded =>
        /\ files[TargetOf(snd.file_name)].present
        /\ files[TargetOf(snd.file_name)].data = SrcData(snd.file_len)

\* A successful transfer of a file in two non-empty chunks.
C2_Witness ==
    /\ TransferSucceeded
    /\ snd.parallel_cnt = 2
    /\ \A i \in 0..1 : wrk[i].length > 0

RECURSIVE SumLengths(_)
SumLengths(plan) ==
    IF plan = <<>> THEN 0 ELSE Head(plan).length + SumLengths(Tail(plan))

\* C3: the chunk plan of send_file, for every file length and every
\* parallel_cnt >= 1: the lengths sum to the file length, no two chunks
\* overlap, and every byte of [0, file_len) lies in a chunk and no chunk
\* reaches past it.
C3_ChunkPlanPartition ==
    (snd.pc = "join") =>
        LET plan == snd.plan
            n == snd.parallel_cnt
            size == snd.file_len
        IN  /\ Len(plan) = n
            /\ \A k \in 1..n : plan[k].start >= 0 /\ plan[k].length >= 0
            /\ SumLengths(plan) = size
            /\ \A j, k \in 1..n :
                  j < k => plan[j].start + plan[j].length <= plan[k].start
            /\ \A k \in 1..n : plan[k].start + plan[k].length <= size
            /\ \A b \in 0..(size - 1) :
                  \E k \in 1..n : plan[k].start <= b /\ b < plan[k].start + plan[k].length

\* A plan whose last chunk takes a remainder: 10 bytes over 4 workers.
C3_Witness ==
    /\ snd.pc = "join"
    /\ snd.file_len = 10
    /\ snd.parallel_cnt = 4
    /\ snd.plan[4] = [start |-> 6, length |-> 4]

\* C4 (as claimed): the session counters satisfy 0 <= bytes_written <=
\* total_bytes in every state of the receiver, and so does every pair a DATA
\* handler holds or passes to on_progress.
C4_CountersWithinTotal ==
    /\ 0 <= progress_counter /\ progress_counter <= total_size_store
    /\ \A pr \in rx_progress : pr[1] <= pr[2]
    /\ \A c \in Conns :
          hnd[c].pc = "data_notify" => hnd[c].current_total <= hnd[c].total

\* The sender reported success: the handshake read ACC and every worker
\* wrote its whole chunk.
SenderSucceeded == snd.pc = "done" /\ tx_complete = <<<<TRUE, "send completed">>>>

\* A handler ended on an I/O failure of the receiving side.
ReceiveFailed ==
    \E c \in Conns : hnd[c].outcome \in {"open_err", "read_err", "write_err", "panic"}

\* C5: when a REQ with file_size > 0 was accepted and the sender has
\* delivered every byte, the receiver eventually calls
\* on_complete(true, file_name), unless one of its own reads or writes
\* fails; it has called it by the time every DATA stream was read to its end.
C5_CompleteOnSuccess ==
    /\ []((TransferSucceeded /\ snd.file_len > 0) =>
              <<TRUE, snd.file_name>> \in Range(rx_complete))
    /\ (SenderSucceeded /\ snd.file_len > 0)
          ~> (<<TRUE, snd.file_name>> \in Range(rx_complete) \/ ReceiveFailed)

\* Two DATA streams delivered in full, and the completion notified.
C5_Witness ==
    /\ TransferSucceeded
    /\ snd.parallel_cnt = 2
    /\ snd.file_len >= 2
    /\ rx_complete # <<>>

\* C6 (as claimed): once a REQ with file_size = 0 has been accepted and the
\* transfer has run to its end, the target is a zero-byte file and the
\* receiver has signalled completion with on_complete(true, ...).
C6_ZeroSizeCompletes ==
    (TransferSucceeded /\ hnd[0].num = 0) =>
        /\ files[TargetOf(snd.file_name)] = FileOf(<<>>)
        /\ \E k \in 1..Len(rx_complete) : rx_complete[k][1] = TRUE

\* C7: every step of a handler whose REQ the host refused leaves the files
\* and both counters as they were; the handler writes nothing but, with its
\* last step, REJ\n.
C7_RejectLeavesNoTrace ==
    [][\A c \in Conns :
          (hnd'[c] # hnd[c] /\ hnd'[c].outcome = "reject") =>
              /\ files' = files
              /\ total_size_store' = total_size_store
              /\ progress_counter' = progress_counter
              /\ s2c[c] = <<>>
              /\ s2c'[c] = IF hnd'[c].pc = "done" THEN MsgREJ ELSE <<>>
              /\ hnd'[c].pc \in {"req_reject", "done"}]_vars

\* A refused REQ answered while the session of an accepted one stands.
C7_Witness ==
    \E c \in Conns :
        /\ hnd[c].pc = "done" /\ hnd[c].outcome = "reject"
        /\ s2c[c] = MsgREJ
        /\ total_size_store > 0
        /\ files[TargetOf(PlainName)].present

\* C8: when the handshake read does not start with ACC (REJ, REJ|reason, or
\* nothing), send_file has ended with on_complete(false, ...), and no worker
\* exists, no DATA connection was opened and nothing was sent on one.
C8_NoDataAfterRefusal ==
    (snd.read_done /\ ~StartsWith(snd.response, S_ACC)) =>
        /\ snd.pc = "done"
        /\ tx_complete = <<<<FALSE, "peer rejected">>>>
        /\ snd.plan = <<>>
        /\ \A i \in Workers : wrk[i] = WrkIdle
        /\ \A c \in Conns \ {0} : hnd[c].pc = "free" /\ c2s[c] = <<>>

\* The sender read REJ|CreateFileErr.
C8_Witness ==
    /\ snd.read_done
    /\ snd.response = MsgREJCreate
    /\ snd.pc = "done"

\* C9: when the host accepted the REQ and the file could not be created, the
\* failing step and the reply change neither the files nor the counters, and
\* the only bytes the handler writes are REJ|CreateFileErr\n.
C9_CreateFailureRejects ==
    [][\A c \in Conns :
          (hnd'[c] # hnd[c] /\ "req_create_err" \in {hnd[c].pc, hnd'[c].pc}) =>
              /\ files' = files
              /\ total_size_store' = total_size_store
              /\ progress_counter' = progress_counter
              /\ hnd'[c].outcome = IF hnd'[c].pc = "done" THEN "create_err" ELSE "accept"
              /\ s2c[c] = <<>>
              /\ s2c'[c] = IF hnd[c].pc = "req_create_err" THEN MsgREJCreate ELSE <<>>
              /\ hnd[c].pc = "req_create_err" => hnd'[c].pc = "done"]_vars

\* A failed create answered while the session of an accepted REQ stands.
C9_Witness ==
    \E c \in Conns :
        /\ hnd[c].pc = "done" /\ hnd[c].outcome = "create_err"
        /\ s2c[c] = MsgREJCreate
        /\ total_size_store > 0

\* C10 (as claimed): every file the receiver has created or written lies
\* directly inside save_dir, whatever name the frame carried.
C10_FilesInsideSaveDir ==
    \A p \in FilePaths : files[p].present => InSaveDir(p)

\* ------------------------------------------------------ discovery claims

\* The fields of the datagram of log record r, and the calls it caused.
PartsOf(r) == Split(r.msg, PIPE)
FoundOf(r) == SelectSeq(r.events, LAMBDA ev : ev[1] = "found")
SentOf(r) == SelectSeq(r.events, LAMBDA ev : ev[1] = "send")
OwnId(r) == listener[r.at].device_id

\* A DISCOVER of four fields from another device.
WellFormedDiscover(r) ==
    /\ StartsWith(r.msg, S_DISCOVER)
    /\ Len(PartsOf(r)) = 4
    /\ PartsOf(r)[2] # OwnId(r)

\* C11: a datagram whose field 1 is the listener's own device_id causes no
\* on_device_found call and no send_to call, whatever its verb and its
\* number of fields.
C11_SelfEchoDropped ==
    \A k \in DOMAIN udp_log :
        (Len(PartsOf(udp_log[k])) > 1 /\ PartsOf(udp_log[k])[2] = OwnId(udp_log[k]))
            => udp_log[k].events = <<>>

\* The listener received a DISCOVER of two fields and one of four fields,
\* both with its own id.
C11_Witness ==
    /\ \E k \in DOMAIN udp_log :
          udp_log[k].msg = S_DISCOVER \o IdB /\ udp_log[k].events = <<>>
    /\ \E k \in DOMAIN udp_log :
          udp_log[k].msg = DiscoverMsg(IdB, NameX, 4061) /\ udp_log[k].events = <<>>

\* C12: a DISCOVER of four fields from another device causes exactly one
\* on_device_found call and then exactly one send_to, of a HERE datagram to
\* the source address, at the port field 3 carries when it carries one.
C12_DiscoverAnsweredOnce ==
    \A k \in DOMAIN udp_log :
        WellFormedDiscover(udp_log[k]) =>
            LET r == udp_log[k]
            IN  /\ Len(r.events) = 2
                /\ r.events[1][1] = "found"
                /\ r.events[2][1] = "send"
                /\ StartsWith(r.events[2][2].msg, S_HERE)
                /\ Len(Split(r.events[2][2].msg, PIPE)) = 4
                /\ r.events[2][2].ip = r.addr
                /\ ParseU16(PartsOf(r)[4]) # -1 =>
                       r.events[2][2].port = ParseU16(PartsOf(r)[4])

\* A DISCOVER advertising port 4061 was answered at that port.
C12_Witness ==
    \E k \in DOMAIN udp_log :
        /\ udp_log[k].msg = DiscoverMsg(IdX, NameX, 4061)
        /\ udp_log[k].addr = "10.0.0.9"
        /\ Len(udp_log[k].events) = 2
        /\ udp_log[k].events[2][2].port = 4061

\* C13: every DeviceInfo passed to on_device_found has the fields 1 and 2 of
\* the datagram as device_id and name, the number field 3 parses to (4060
\* when it parses to none) as control_port and the UDP source address as ip;
\* two receptions of the same datagram from the same address cause equal
\* on_device_found calls.
C13_DescriptorFromDatagram ==
    /\ \A k \in DOMAIN udp_log :
          \A n \in DOMAIN FoundOf(udp_log[k]) :
              LET r == udp_log[k]
                  device == FoundOf(r)[n][2]
              IN  /\ device.device_id = PartsOf(r)[2]
                  /\ device.name = PartsOf(r)[3]
                  /\ device.ip = r.addr
                  /\ device.control_port =
                         IF ParseU16(PartsOf(r)[4]) = -1 THEN 4060
                         ELSE ParseU16(PartsOf(r)[4])
    /\ \A j, k \in DOMAIN udp_log :
          (udp_log[j].msg = udp_log[k].msg /\ udp_log[j].addr = udp_log[k].addr)
              => FoundOf(udp_log[j]) = FoundOf(udp_log[k])

\* The same DISCOVER, whose name field reads like an address, was received
\* twice from one address and reported twice.
C13_Witness ==
    /\ Len(udp_log) >= 2
    /\ udp_log[1].msg = DiscoverMsg(IdX, NameX, 4061)
    /\ udp_log[2].msg = udp_log[1].msg
    /\ udp_log[2].addr = udp_log[1].addr
    /\ Len(FoundOf(udp_log[1])) = 1
    /\ FoundOf(udp_log[2]) = FoundOf(udp_log[1])

\* Rounds of host e's listener that received a datagram starting with prefix.
Received(e, prefix) ==
    {k \in DOMAIN udp_log : udp_log[k].at = e /\ StartsWith(udp_log[k].msg, prefix)}

\* Rounds of host e's listener that sent a datagram.
Answered(e) == {k \in DOMAIN udp_log : udp_log[k].at = e /\ SentOf(udp_log[k]) # <<>>}

\* C14: a round that received a HERE datagram makes no send_to call; so a
\* host sends at most one HERE per DISCOVER it receives, and the datagrams
\* of an exchange are at most three per DISCOVER broadcast or datagram sent
\* in from outside.
C14_HereNeverAnswered ==
    /\ \A k \in DOMAIN udp_log :
          StartsWith(udp_log[k].msg, S_HERE) => SentOf(udp_log[k]) = <<>>
    /\ \A e \in Endpoints :
          /\ Answered(e) \subseteq Received(e, S_DISCOVER)
          /\ \A k \in Answered(e) : Len(SentOf(udp_log[k])) = 1
    /\ Len(udp_log) + Cardinality(udp_net) <= 3 * udp_sends

\* A broadcast its DISCOVER, B answered HERE, A reported B and sent nothing,
\* and no datagram is left.
C14_Witness ==
    /\ udp_net = {}
    /\ \E j, k \in DOMAIN udp_log :
          /\ j < k
          /\ udp_log[j].at = "B" /\ StartsWith(udp_log[j].msg, S_DISCOVER)
          /\ Len(SentOf(udp_log[j])) = 1
          /\ udp_log[k].at = "A" /\ udp_log[k].msg = SentOf(udp_log[j])[1][2].msg
          /\ Len(FoundOf(udp_log[k])) = 1
          /\ SentOf(udp_log[k]) = <<>>

\* C15: a datagram that does not have exactly four fields causes no
\* on_device_found call.
C15_NoCallbackUnlessFourFields ==
    \A k \in DOMAIN udp_log :
        Len(PartsOf(udp_log[k])) # 4 => FoundOf(udp_log[k]) = <<>>

\* DISCOVER and HERE datagrams of two, three and five fields were received.
C15_Witness ==
    /\ \E k \in DOMAIN udp_log :
          /\ udp_log[k].msg = DiscoverMsg(IdX, NameX, 4061) \o <<PIPE, "1">>
          /\ FoundOf(udp_log[k]) = <<>>
    /\ \E k \in DOMAIN udp_log :
          /\ udp_log[k].msg \in {S_HERE \o IdX \o <<PIPE>> \o NameX, S_DISCOVER \o IdX}
          /\ FoundOf(udp_log[k]) = <<>>

\* C16 (as claimed): a datagram that does not have exactly four fields,
\* one beginning with DISCOVER| included, causes no send_to call.
C16_MalformedDropped ==
    \A k \in DOMAIN udp_log :
        Len(PartsOf(udp_log[k])) # 4 => SentOf(udp_log[k]) = <<>>

\* C17 (as claimed): the port field of every HERE reply is the port the
\* host's start_file_server runs on.
C17_HereCarriesServerPort ==
    \A k \in DOMAIN udp_log :
        \A n \in DOMAIN SentOf(udp_log[k]) :
            SentOf(udp_log[k])[n][2].msg =
                HereMsg(OwnId(udp_log[k]), listener[udp_log[k].at].device_name,
                        listener[udp_log[k].at].server_port)

\* C18 (as claimed): a DISCOVER of four fields whose field 3 is no 16-bit
\* decimal number is reported with control_port = P and answered at port P,
\* P being the port the listener was started on.
C18_FallbackToListenPort ==
    \A k \in DOMAIN udp_log :
        (WellFormedDiscover(udp_log[k]) /\ ParseU16(PartsOf(udp_log[k])[4]) = -1) =>
            /\ \A n \in DOMAIN FoundOf(udp_log[k]) :
                  FoundOf(udp_log[k])[n][2].control_port = listener[udp_log[k].at].port
            /\ \A n \in DOMAIN SentOf(udp_log[k]) :
                  SentOf(udp_log[k])[n][2].port = listener[udp_log[k].at].port

\* ------------------------------------------------- transfer claims (2)

\* The step is the counter reset of a REQ the host accepted (line 278).
AcceptedReqReset ==
    \E c \in Conns :
        /\ hnd[c].pc = "req_progress"
        /\ hnd[c].outcome = "accept"
        /\ hnd'[c].pc = "req_acc"

\* C19: bytes_written decreases only in the reset of an accepted REQ; every
\* step of a DATA handler leaves it equal or larger, whatever the other
\* handlers do.
C19_BytesWrittenMonotonic ==
    [][/\ progress_counter' < progress_counter => AcceptedReqReset
       /\ \A c \in Conns :
             (hnd[c].verb = "DATA" /\ hnd'[c] # hnd[c]) =>
                 progress_counter' >= progress_counter]_vars

\* Two DATA handlers have added to the counter of one session.
C19_Witness ==
    /\ progress_counter = 3
    /\ Len(rx_requests) = 1
    /\ \E c, e \in Conns :
          /\ c # e
          /\ hnd[c].verb = "DATA" /\ hnd[c].current_total > 0
          /\ hnd[e].verb = "DATA" /\ hnd[e].current_total > 0

\* The workers send_file spawned.
Spawned == {i \in Workers : i < snd.parallel_cnt}

\* C20: when send_file has reported after spawning its workers, every
\* worker has terminated and the report is success = true exactly when no
\* worker's send_chunk returned an error; and a worker that has not
\* terminated can take its next step whatever has become of the others.
C20_SuccessIffNoWorkerError ==
    /\ (snd.pc = "done" /\ snd.plan # <<>>) =>
           /\ \A i \in Spawned : wrk[i].pc = "done"
           /\ Len(tx_complete) = 1
           /\ tx_complete[1][1] <=> (\A i \in Spawned : ~wrk[i].failed)
    /\ (snd.pc = "join") => tx_complete = <<>>
    /\ \A i \in Workers : wrk[i].pc \notin {"idle", "done"} => ENABLED Worker(i)

\* The first worker failed, the second one sent its two bytes all the same,
\* and send_file reported the failure after both.
C20_Witness ==
    /\ snd.pc = "done"
    /\ wrk[0].failed
    /\ ~wrk[1].failed /\ wrk[1].pc = "done"
    /\ wrk[1].length = 2 /\ wrk[1].sent = 2
    /\ tx_complete # <<>> /\ ~tx_complete[1][1]

\* ------------------------------------------------- transfer claims (3)

\* The handler of connection c takes the step that leaves position pc.
Leaves(c, pc) == hnd[c].pc = pc /\ hnd'[c].pc # pc

ReadSizes == {BufLen, BufLen \div 2}

\* Lines 310-335, one round of the DATA loop in which the read returns n
\* bytes and the write succeeds: the counter grows by n, the total is read,
\* and the two notifications are decided. The bytes themselves are left out
\* (the file and the stream are not modelled at this size); the sender sends
\* no byte beyond the announced size.
DataRound(c, n) ==
    /\ hnd[c].pc = "data_read"
    /\ progress_counter + n <= total_size_store
    /\ LET h == hnd[c]
           current_total == progress_counter + n
           total == total_size_store
           due == ProgressDue(current_total, h.last_progress_update, total)
       IN  /\ progress_counter' = current_total
           /\ rx_progress' = IF due THEN rx_progress \cup {<<current_total, total>>}
                             ELSE rx_progress
           /\ rx_complete' = IF CompleteDue(current_total, total)
                             THEN Append(rx_complete, <<TRUE, h.filename>>)
                             ELSE rx_complete
           /\ hnd' = [hnd EXCEPT ![c] = [h EXCEPT !.pos = @ + n,
                          !.current_total = current_total, !.total = total,
                          !.last_progress_update =
                              IF due THEN current_total ELSE h.last_progress_update]]
    /\ UNCHANGED <<discVars, total_size_store, files, rx_requests, netVars, txVars>>

\* The handlers of the DATA connections of a transfer with MaxPar workers.
DataConns == Conns \ {0}

\* The listener after it accepted REQ|f|size for a file of MaxBuffers
\* buffers, with every DATA handler at the top of its loop, at the start of
\* its chunk.
InitProgress ==
    /\ total_size_store = MaxBuffers * BufLen
    /\ progress_counter = 0
    /\ files = [p \in FilePaths |-> IF p = Resolve(JoinPath(SaveDir, PlainName))
                                    THEN FileOf(<<>>) ELSE NoFile]
    /\ hnd = [c \in Conns |->
                 IF c = 0
                 THEN [HndFree EXCEPT !.pc = "done", !.verb = "REQ", !.filename = PlainName,
                          !.num = MaxBuffers * BufLen, !.outcome = "accept",
                          !.path = Resolve(JoinPath(SaveDir, PlainName))]
                 ELSE [HndFree EXCEPT !.pc = "data_read", !.verb = "DATA",
                          !.filename = PlainName,
                          !.num = (c - 1) * ((MaxBuffers * BufLen) \div MaxPar),
                          !.pos = (c - 1) * ((MaxBuffers * BufLen) \div MaxPar),
                          !.path = Resolve(JoinPath(SaveDir, PlainName))]]
    /\ rx_requests = <<<<PlainName, MaxBuffers * BufLen, PeerIp>>>>
    /\ rx_progress = {}
    /\ rx_complete = <<>>
    /\ c2s = [c \in Conns |-> <<>>]
    /\ c2sClosed = [c \in Conns |-> c = 0]
    /\ s2c = [c \in Conns |-> IF c = 0 THEN MsgACC ELSE <<>>]
    /\ s2cClosed = [c \in Conns |-> c = 0]
    /\ snd = SndIdle
    /\ wrk = [i \in Workers |-> WrkIdle]
    /\ error_occurred = FALSE
    /\ tx_progress = 0
    /\ tx_complete = <<>>
    /\ DiscoveryOff

NextProgress == \E c \in DataConns, n \in ReadSizes : DataRound(c, n)

ProgressSpec == InitProgress /\ [][NextProgress]_vars

\* ------------------------------------------------- transfer claims (4)

\* bytes_written at the last on_progress call of the session (0 before the
\* first): the counter only grows in ProgressSpec, so it is the largest
\* value notified.
LastNotified ==
    CHOOSE m \in {0} \cup {p[1] : p \in rx_progress} :
        \A p \in rx_progress : p[1] <= m

\* C22: the receiver calls on_progress(bytes_written, total_bytes) whenever
\* bytes_written has advanced by at least 1 MiB since the last on_progress
\* call of the session or equals total_bytes, and at no other time: a round
\* that moves the counter notifies exactly when one of the two is the case.
C22_ProgressPolicy ==
    [][progress_counter' # progress_counter =>
           ((rx_progress' # rx_progress) <=>
                \/ progress_counter' - LastNotified >= ProgressStride
                \/ progress_counter' = total_size_store)]_vars

\* --------------------------------------------- discovery: the broadcasts

\* An Ipv4Addr is its four octets; u32::from(ip) is the same four bytes as a
\* big-endian number, so the bit operations on the u32 are those on each
\* octet.
Octets == 1..4

\* a | b on one byte, bit by bit from the lowest.
RECURSIVE BitOr(_, _)
BitOr(a, b) ==
    IF a = 0 /\ b = 0 THEN 0
    ELSE (IF a % 2 = 1 \/ b % 2 = 1 THEN 1 ELSE 0) + 2 * BitOr(a \div 2, b \div 2)

\* a & b on one byte.
RECURSIVE BitAnd(_, _)
BitAnd(a, b) ==
    IF a = 0 \/ b = 0 THEN 0
    ELSE (IF a % 2 = 1 /\ b % 2 = 1 THEN 1 ELSE 0) + 2 * BitAnd(a \div 2, b \div 2)

\* !a on one byte of the u32.
BitNot(a) == 255 - a

\* caculate_broadcast computing the network address, ip & mask.
caculate_network(ip, mask) == [k \in Octets |-> BitAnd(ip[k], mask[k])]

\* Lines 23-28: Ipv4Addr::from(u32::from(ip) | !u32::from(mask)).
caculate_broadcast(ip, mask) == [k \in Octets |-> BitOr(ip[k], BitNot(mask[k]))]

\* Ipv4Addr::is_unspecified: 0.0.0.0.
is_unspecified(ip) == ip = <<0, 0, 0, 0>>

\* Ipv4Addr's to_string: the octets in decimal, joined by dots.
Ipv4ToString(ip) ==
    FormatU64(ip[1]) \o <<".">> \o FormatU64(ip[2]) \o <<".">> \o
    FormatU64(ip[3]) \o <<".">> \o FormatU64(ip[4])

\* "255.255.255.255".to_string() of line 187.
LimitedBroadcast ==
    <<"2", "5", "5", ".", "2", "5", "5", ".", "2", "5", "5", ".", "2", "5", "5">>

\* Lines 169-180: the loop over the interfaces; loopback interfaces and
\* those with no IPv4 address are skipped, and so is a broadcast of 0.0.0.0.
RECURSIVE CollectBroadcasts(_)
CollectBroadcasts(ifaces) ==
    IF ifaces = <<>> THEN <<>>
    ELSE LET iface == Head(ifaces)
             broadcast == caculate_broadcast(iface.ip, iface.netmask)
         IN  (IF iface.loopback \/ ~iface.v4 \/ is_unspecified(broadcast)
              THEN <<>>
              ELSE <<Ipv4ToString(broadcast)>>) \o CollectBroadcasts(Tail(ifaces))

\* get_target_broadcats with an empty result left empty.
get_target_broadcats_no_fallback(r) ==
    IF r.ok THEN CollectBroadcasts(r.ifaces) ELSE <<>>

\* Lines 164-192: the broadcasts of the interfaces get_if_addrs() returned
\* (none when it failed), or 255.255.255.255 when there is none.
get_target_broadcats(r) ==
    LET found == IF r.ok THEN CollectBroadcasts(r.ifaces) ELSE <<>>
    IN  IF found = <<>> THEN <<LimitedBroadcast>> ELSE found

\* The caller's step: get_target_broadcats() returns.
GetTargetBroadcats ==
    /\ ~broadcasts.called
    /\ broadcasts' = [called |-> TRUE, result |-> get_target_broadcats(if_addrs)]
    /\ UNCHANGED <<rxVars, netVars, txVars, listener, udp_net, udp_log, udp_sends, if_addrs,
                   devices>>

\* Addresses and netmasks of the interfaces of BroadcastSpec: contiguous
\* and non-contiguous masks, the all-ones and the all-zeros mask.
IpSamples ==
    {<<192, 168, 1, 42>>, <<10, 0, 0, 5>>, <<0, 0, 0, 0>>, <<172, 16, 5, 4>>,
     <<169, 254, 77, 200>>}
MaskSamples ==
    {<<255, 255, 255, 0>>, <<255, 0, 0, 0>>, <<255, 255, 255, 255>>, <<0, 0, 0, 0>>,
     <<255, 255, 240, 0>>, <<255, 0, 255, 0>>, <<255, 255, 255, 252>>}

\* An interface as get_if_addrs reports it: is_loopback(), and the address
\* and netmask of an IfAddr::V4 (v4 = FALSE: an IfAddr::V6).
Interfaces ==
    [loopback : {FALSE}, v4 : {TRUE}, ip : IpSamples, netmask : MaskSamples]
    \cup {[loopback |-> TRUE, v4 |-> TRUE, ip |-> <<127, 0, 0, 1>>,
           netmask |-> <<255, 0, 0, 0>>]}
    \cup [loopback : BOOLEAN, v4 : {FALSE}, ip : {<<0, 0, 0, 0>>},
          netmask : {<<0, 0, 0, 0>>}]

\* What get_if_addrs() may return: an error, or up to MaxIfaces interfaces.
IfAddrsResults ==
    {[ok |-> FALSE, ifaces |-> <<>>]}
    \cup {[ok |-> TRUE, ifaces |-> l] :
             l \in UNION {[1..n -> Interfaces] : n \in 0..MaxIfaces}}

InitBroadcast ==
    /\ total_size_store = 0
    /\ progress_counter = 0
    /\ files = [p \in FilePaths |-> NoFile]
    /\ hnd = [c \in Conns |-> HndFree]
    /\ rx_requests = <<>>
    /\ rx_progress = {}
    /\ rx_complete = <<>>
    /\ c2s = [c \in Conns |-> <<>>]
    /\ c2sClosed = [c \in Conns |-> FALSE]
    /\ s2c = [c \in Conns |-> <<>>]
    /\ s2cClosed = [c \in Conns |-> FALSE]
    /\ snd = SndIdle
    /\ wrk = [i \in Workers |-> WrkIdle]
    /\ error_occurred = FALSE
    /\ tx_progress = 0
    /\ tx_complete = <<>>
    /\ listener = [e \in Endpoints |-> NoListener]
    /\ udp_net = {}
    /\ udp_log = <<>>
    /\ udp_sends = 0
    /\ if_addrs \in IfAddrsResults
    /\ broadcasts = [called |-> FALSE, result |-> <<>>]
    /\ NoDevices

NextBroadcast == GetTargetBroadcats

BroadcastSpec == InitBroadcast /\ [][NextBroadcast]_vars

\* ---------------------------------------------------- discovery claims (2)

\* The interface contributes a broadcast address: it is no loopback
\* interface, has an IPv4 address, and its broadcast is not 0.0.0.0.
Yields(iface) ==
    /\ ~iface.loopback
    /\ iface.v4
    /\ caculate_broadcast(iface.ip, iface.netmask) # <<0, 0, 0, 0>>

\* C23: get_target_broadcats never returns an empty collection; when the
\* interface query fails, or no non-loopback IPv4 interface yields a non-zero
\* broadcast address, the result is exactly the one address 255.255.255.255.
C23_NeverEmpty ==
    broadcasts.called =>
        /\ broadcasts.result # <<>>
        /\ (~if_addrs.ok \/ \A k \in DOMAIN if_addrs.ifaces : ~Yields(if_addrs.ifaces[k]))
               => broadcasts.result = <<LimitedBroadcast>>

\* The machine has a loopback interface and one whose broadcast is 0.0.0.0:
\* the result is the fallback.
C23_Witness ==
    /\ broadcasts.called
    /\ if_addrs.ok
    /\ Len(if_addrs.ifaces) = 2
    /\ if_addrs.ifaces[1].loopback
    /\ if_addrs.ifaces[2].ip = <<0, 0, 0, 0>>
    /\ if_addrs.ifaces[2].netmask = <<255, 255, 255, 255>>
    /\ if_addrs.ifaces[2].v4
    /\ broadcasts.result = <<LimitedBroadcast>>

\* Bit k of the byte x.
BitOf(x, k) == (x \div (2 ^ k)) % 2

\* The interfaces of the machine that are no loopback interface, have an
\* IPv4 address, and a broadcast other than 0.0.0.0.
Yielding == SelectSeq(if_addrs.ifaces, Yields)

\* C24: for every address A and netmask M the broadcast is A | ~M on 32
\* bits: a bit of the result is set exactly when it is set in A or clear in
\* M, and every octet stays a byte (192.168.1.42 with 255.255.255.0 gives
\* 192.168.1.255); the result of the enumeration holds no broadcast of a
\* loopback interface and never 0.0.0.0: when an interface yields, it is
\* the broadcasts of the yielding interfaces, in their order.
C24_BroadcastIsOrNotMask ==
    /\ \A k \in DOMAIN if_addrs.ifaces :
          LET iface == if_addrs.ifaces[k]
              b == caculate_broadcast(iface.ip, iface.netmask)
          IN  iface.v4 =>
                  \A o \in Octets :
                      /\ b[o] \in 0..255
                      /\ \A bit \in 0..7 :
                            BitOf(b[o], bit) = 1 <=>
                                (BitOf(iface.ip[o], bit) = 1 \/ BitOf(iface.netmask[o], bit) = 0)
    /\ caculate_broadcast(<<192, 168, 1, 42>>, <<255, 255, 255, 0>>) = <<192, 168, 1, 255>>
    /\ broadcasts.called =>
          /\ \A n \in DOMAIN broadcasts.result :
                broadcasts.result[n] # <<"0", ".", "0", ".", "0", ".", "0">>
          /\ (if_addrs.ok /\ Yielding # <<>>) =>
                /\ Len(broadcasts.result) = Len(Yielding)
                /\ \A n \in DOMAIN Yielding :
                      broadcasts.result[n] =
                          Ipv4ToString(caculate_broadcast(Yielding[n].ip, Yielding[n].netmask))

\* A loopback interface and 192.168.1.42/24: the one broadcast is
\* 192.168.1.255.
C24_Witness ==
    /\ broadcasts.called
    /\ Len(if_addrs.ifaces) = 2
    /\ if_addrs.ifaces[1].loopback /\ if_addrs.ifaces[1].v4
    /\ if_addrs.ifaces[2].ip = <<192, 168, 1, 42>>
    /\ if_addrs.ifaces[2].netmask = <<255, 255, 255, 0>>
    /\ broadcasts.result =
           <<<<"1", "9", "2", ".", "1", "6", "8", ".", "1", ".", "2", "5", "5">>>>

\* ------------------------------------------------- transfer claims (5)

\* C25: with base = floor(file_size / N), worker i is assigned offset
\* i * base; every worker but the last gets length base and the last gets
\* file_size - (N - 1) * base; for file_size = 10 and N = 4 the plan is
\* (0,2), (2,2), (4,2), (6,4).
C25_ChunkPlanFormula ==
    (snd.pc = "join") =>
        LET n == snd.parallel_cnt
            base == snd.file_len \div snd.parallel_cnt
        IN  /\ DOMAIN snd.plan = 1..n
            /\ \A i \in 0..(n - 1) :
                  /\ snd.plan[i + 1].start = i * base
                  /\ snd.plan[i + 1].length =
                         IF i < n - 1 THEN base ELSE snd.file_len - (n - 1) * base
            /\ (snd.file_len = 10 /\ n = 4) =>
                  snd.plan = <<[start |-> 0, length |-> 2], [start |-> 2, length |-> 2],
                               [start |-> 4, length |-> 2], [start |-> 6, length |-> 4]>>

\* The plan of the example: 10 bytes for 4 workers, the last one takes the
\* remainder.
C25_Witness ==
    /\ snd.pc = "join"
    /\ snd.file_len = 10
    /\ Len(snd.plan) = 4
    /\ \A k \in 1..3 : snd.plan[k] = [start |-> 2 * (k - 1), length |-> 2]
    /\ snd.plan[4].start + snd.plan[4].length = snd.file_len

\* C26: every accepted REQ (the host returned true and the file was created)
\* sets total_bytes to its file_size and bytes_written to 0, whatever the
\* two held before, a transfer in progress included; the ACC is written only
\* after both stores; and total_bytes is changed by nothing else.
C26_AcceptedReqOverwrites ==
    [][/\ \A c \in Conns :
             /\ Leaves(c, "req_set_len") =>
                    hnd[c].outcome = "accept" /\ files[hnd[c].path].present
                    /\ hnd'[c].pc = "req_total"
             /\ Leaves(c, "req_total") =>
                    total_size_store' = hnd[c].num /\ hnd'[c].pc = "req_progress"
             /\ Leaves(c, "req_progress") =>
                    progress_counter' = 0 /\ hnd'[c].pc = "req_acc"
             /\ (s2c'[c] # s2c[c] /\ StartsWith(s2c'[c], S_ACC)) => hnd[c].pc = "req_acc"
       /\ total_size_store' # total_size_store =>
             \E c \in Conns : Leaves(c, "req_total") /\ hnd[c].verb = "REQ"]_vars

\* A second REQ was accepted while a DATA handler had written one of the two
\* bytes of the first: the counters are back at (2, 0).
C26_Witness ==
    /\ Len(rx_requests) = 2
    /\ total_size_store = 2
    /\ progress_counter = 0
    /\ \E c, d, e \in Conns :
          /\ hnd[c].verb = "REQ" /\ hnd[c].pc = "done" /\ hnd[c].outcome = "accept"
          /\ hnd[d].verb = "DATA" /\ hnd[d].current_total = 1
             /\ hnd[d].pc \notin {"free", "done"}
          /\ hnd[e].verb = "REQ" /\ hnd[e].pc = "req_acc" /\ e # c

\* C27: on an accepted REQ the reset of the session is atomic with respect
\* to DATA handlers: while a REQ handler has stored the new total_bytes and
\* not yet reset bytes_written, no DATA handler reads either of the two (it
\* would see the new total together with the old counter).
C27_ResetAtomic ==
    [][(\E c \in Conns : hnd[c].pc = "req_progress") =>
           \A d \in Conns : ~Leaves(d, "data_add") /\ ~Leaves(d, "data_total")]_vars

\* The bytes the DATA handler of connection c has written to its file
\* (its file position less the offset it started at), and those of them it
\* has added to the counter: all but the buffer of a round whose write is
\* done and whose addition is still to come.
WrittenBy(c) ==
    IF hnd[c].verb = "DATA" /\ hnd[c].path # <<>> THEN hnd[c].pos - hnd[c].num ELSE 0
CountedBy(c) ==
    WrittenBy(c) - (IF hnd[c].pc = "data_add" THEN Len(hnd[c].buf) ELSE 0)

RECURSIVE SumCounted(_)
SumCounted(c) == IF c < 0 THEN 0 ELSE CountedBy(c) + SumCounted(c - 1)

SrcSlice(from, len) == SubSeq(SrcData(snd.file_len), from + 1, from + len)

\* The chunk bytes the handler of worker i's connection has taken off the
\* stream so far.
Consumed(i) ==
    LET h == hnd[i + 1]
    IN  IF h.path = <<>> THEN 0
        ELSE h.pos - h.num + (IF h.pc = "data_write" THEN Len(h.buf) ELSE 0)

\* What is on worker i's connection is one DATA header for the worker's
\* offset followed by bytes of the worker's chunk, in order and not beyond
\* it: stated on what the handler has parsed and on what it has not read.
OwnStream(i) ==
    LET h == hnd[i + 1]
        head == DataFrame(snd.file_name, wrk[i].start)
        rest == Drop(c2s[i + 1], Len(head))
    IN  /\ h.verb # "" =>
              h.verb = "DATA" /\ h.filename = snd.file_name /\ h.num = wrk[i].start
        /\ h.pc = "header" =>
              \/ c2s[i + 1] = <<>>
              \/ /\ StartsWith(c2s[i + 1], head)
                 /\ Len(rest) <= wrk[i].length
                 /\ rest = SrcSlice(wrk[i].start, Len(rest))
        /\ h.pc \notin {"free", "header", "done"} =>
              /\ Consumed(i) + Len(c2s[i + 1]) <= wrk[i].length
              /\ c2s[i + 1] = SrcSlice(wrk[i].start + Consumed(i), Len(c2s[i + 1]))
              /\ h.pc = "data_write" =>
                    h.buf = SrcSlice(wrk[i].start + Consumed(i) - Len(h.buf), Len(h.buf))

\* C29: the sender opens no DATA connection before it has read a handshake
\* response starting with ACC, and the handshake connection is closed before
\* the first worker connects; each worker has its own connection, which
\* carries exactly one DATA header followed by that worker's bytes.
C29_DataAfterAccOwnConnection ==
    \A i \in Workers :
        /\ (hnd[i + 1].pc # "free" \/ wrk[i].pc # "idle") =>
               /\ snd.read_done
               /\ StartsWith(snd.response, S_ACC)
               /\ c2sClosed[0]
               /\ i < snd.parallel_cnt
        /\ hnd[i + 1].pc # "free" => wrk[i].pc \notin {"idle", "open", "connect"}
        /\ OwnStream(i)

\* Both workers of a three-byte transfer are connected, the handshake
\* connection is closed, and the second connection carries its header and
\* its two bytes, none of them read yet.
C29_Witness ==
    /\ c2sClosed[0]
    /\ snd.file_len = 3
    /\ hnd[1].verb = "DATA" /\ hnd[1].num = 0
    /\ hnd[2].pc = "header"
    /\ c2s[2] = DataFrame(PlainName, 1) \o <<"b", "c">>

\* C30: when the receiver sends ACC (the handler is at the write of line
\* 280), the target file has been created and its length set to file_size,
\* and the session counters hold (file_size, 0).
C30_ReadyAtAcc ==
    \A c \in Conns :
        hnd[c].pc = "req_acc" =>
            /\ files[hnd[c].path].present
            /\ Len(files[hnd[c].path].data) = hnd[c].num
            /\ total_size_store = hnd[c].num
            /\ progress_counter = 0

\* ------------------------------------------------- transfer claims (6)

\* The header line of the stream: the fields before the first '\n', or no
\* fields when the stream holds no '\n'.
HeaderFields(stream) ==
    IF IndexOf(stream, NL) = 0 THEN <<>>
    ELSE Split(SubSeq(stream, 1, IndexOf(stream, NL) - 1), PIPE)

\* The header is incomplete, its verb is neither REQ nor DATA, or it has
\* fewer than three fields.
NoFrame(stream) ==
    \/ HeaderFields(stream) = <<>>
    \/ HeaderFields(stream)[1] \notin {S_REQ, S_DATA}
    \/ Len(HeaderFields(stream)) < 3

\* C31: a connection whose header is incomplete (the peer closes before
\* '\n'), whose verb is neither REQ nor DATA, or which has fewer than three
\* fields causes no callback, no response bytes, no file creation or write,
\* and leaves total_bytes and bytes_written unchanged: the handler's step on
\* such a header ends the handler and changes nothing else.
C31_NoFrameNoEffect ==
    [][\A c \in Conns :
          (Leaves(c, "header") /\ NoFrame(c2s[c])) =>
              /\ hnd'[c].pc = "done"
              /\ hnd'[c].verb = ""
              /\ s2c'[c] = <<>>
              /\ UNCHANGED <<rx_requests, rx_progress, rx_complete, files,
                             total_size_store, progress_counter>>]_vars

\* One connection ended on a header of two fields or an unknown verb, the
\* other on a header the peer never finished; nothing was asked, answered
\* or created.
C31_Witness ==
    /\ hnd[0].outcome = "bad_header"
    /\ hnd[1].outcome = "no_header"
    /\ s2c[0] = <<>> /\ s2c[1] = <<>>
    /\ rx_requests = <<>>
    /\ \A p \in FilePaths : ~files[p].present

\* C32: the receiver never calls on_complete with success = false; a DATA
\* handler that ends (end of stream, read or write error) makes no callback
\* in doing so and leaves the counters as they are, so a session whose
\* handlers have all ended below the total has seen no completion.
C32_NoFailureReport ==
    [][/\ \A k \in DOMAIN rx_complete' : rx_complete'[k][1]
       /\ \A c \in Conns :
             (hnd[c].verb = "DATA" /\ hnd[c].pc # "done" /\ hnd'[c].pc = "done") =>
                 UNCHANGED <<rx_complete, rx_progress, progress_counter, total_size_store>>
       /\ (HandlersQuiet' /\ progress_counter' < total_size_store') =>
              rx_complete' = <<>>]_vars

\* A DATA stream ended after one byte of a longer file (its worker failed):
\* every handler has returned, the counter is below the total and no
\* completion was reported to the receiving host.
C32_Witness ==
    /\ HandlersQuiet
    /\ snd.pc = "done"
    /\ \E c \in Conns : hnd[c].verb = "DATA" /\ hnd[c].outcome = "eof" /\ hnd[c].pos > hnd[c].num
    /\ 0 < progress_counter /\ progress_counter < total_size_store
    /\ rx_complete = <<>>

\* C33: if the source path does not exist, send_file calls
\* on_complete(false, ...) without opening any TCP connection and without
\* sending a REQ: once the check is done the call has ended with that one
\* report, no connection was accepted and no byte sent.
C33_MissingFileFailsLocally ==
    (snd.pc \notin {"idle", "start"} /\ ~snd.exists) =>
        /\ snd.pc = "done"
        /\ tx_complete = <<<<FALSE, "file does not exist">>>>
        /\ \A c \in Conns : hnd[c].pc = "free" /\ c2s[c] = <<>>
        /\ rx_requests = <<>>
        /\ \A i \in Workers : wrk[i].pc = "idle"

\* send_file was called for a path that does not exist and has reported.
C33_Witness ==
    /\ ~snd.exists
    /\ snd.pc = "done"
    /\ Len(tx_complete) = 1 /\ ~tx_complete[1][1]
    /\ hnd[0].pc = "free"

FileSlice(path, from, n) ==
    IF from + n <= Len(files[path].data)
    THEN SubSeq(files[path].data, from + 1, from + n)
    ELSE <<>>

\* C35: in a session fed by one sender with disjoint chunks, a handler that
\* is about to add a round's count, or has added it, has that round's bytes
\* in the file at their offset, and once on_complete(true, ...) has been
\* called the file holds the source's byte at every offset of the transfer.
C35_WrittenBeforeComplete ==
    /\ \A c \in Conns :
          hnd[c].pc \in {"data_add", "data_total", "data_notify"} =>
             /\ hnd[c].buf # <<>>
             /\ FileSlice(hnd[c].path, hnd[c].pos - Len(hnd[c].buf), Len(hnd[c].buf)) = hnd[c].buf
    /\ (\E k \in 1..Len(rx_complete) : rx_complete[k][1]) =>
          /\ files[TargetOf(snd.file_name)].present
          /\ files[TargetOf(snd.file_name)].data = SrcData(snd.file_len)

\* The completion has just been notified by a handler that has not yet
\* returned, the other DATA stream having been handled to its end.
C35_Witness ==
    /\ snd.parallel_cnt = 2 /\ snd.file_len = 3
    /\ rx_complete = <<<<TRUE, snd.file_name>>>>
    /\ hnd[2].pc = "data_read" /\ hnd[2].current_total = 3
    /\ hnd[1].pc = "done" /\ hnd[1].outcome = "eof"

\* C36 (as claimed): whatever REQ and DATA connections arrive, a DATA handler
\* that evaluates bytes_written - last_progress_update holds a counter value
\* no smaller than the value it last notified, so the subtraction does not
\* underflow.
C36_NoUnderflow ==
    \A c \in Conns :
        hnd[c].pc = "data_notify" => hnd[c].current_total >= hnd[c].last_progress_update

\* --------------------------------- the listener over a used save directory

\* A file the save directory holds when start_file_server is called, left by
\* an earlier run or put there by the user.
EarlierFile == FileOf(<<"x", "y">>)

\* Lines 200-219: the listener starts with both counters at 0 over a save
\* directory that is empty or already holds a file named f.
InitIdle ==
    /\ total_size_store = 0
    /\ progress_counter = 0
    /\ \E before \in {NoFile, EarlierFile} :
          files = [p \in FilePaths |->
                      IF p = Resolve(JoinPath(SaveDir, PlainName)) THEN before ELSE NoFile]
    /\ hnd = [c \in Conns |-> HndFree]
    /\ rx_requests = <<>>
    /\ rx_progress = {}
    /\ rx_complete = <<>>
    /\ c2s = [c \in Conns |-> <<>>]
    /\ c2sClosed = [c \in Conns |-> FALSE]
    /\ s2c = [c \in Conns |-> <<>>]
    /\ s2cClosed = [c \in Conns |-> FALSE]
    /\ snd = SndIdle
    /\ wrk = [i \in Workers |-> WrkIdle]
    /\ error_occurred = FALSE
    /\ tx_progress = 0
    /\ tx_complete = <<>>
    /\ DiscoveryOff

IdleSpec == InitIdle /\ [][NextOpen]_vars

\* C37 (as claimed): as long as no REQ has reached the host since the
\* listener started, no step of a connection handler writes to a file,
\* changes bytes_written or makes an on_progress or on_complete call.
C37_IdleDataNoEffect ==
    [][rx_requests' = <<>> =>
          UNCHANGED <<files, progress_counter, rx_progress, rx_complete>>]_vars

\* C38 (as claimed): for every parallel_cnt send_file can be called with, 0
\* included, the call ends with an on_complete callback (the threads being
\* scheduled fairly).
C38_AlwaysCompletes ==
    (snd.pc = "start") ~> (Len(tx_complete) >= 1)

\* ------------------------------------- discovery through the Windows FFI

\* win.rs 97, 114: the device_id every Windows host passes.
S_WINDOWS_PC == <<"w", "i", "n", "d", "o", "w", "s", "_", "p", "c">>

\* win.rs 79-80, 104-105: the name used when user_alias is null.
S_UNKNOWN_WINDOWS_PC == <<"U", "n", "k", "n", "o", "w", "n", " ", "W", "i", "n", "d", "o", "w", "s",
                          " ", "P", "C">>

\* The user_alias arguments of host e: null (<<>>) or its alias.
UserAliases(e) == {<<>>, <<e, e>>}

\* win.rs 70-100: rust_start_discovery(port, user_alias, callback) calls
\* start_listening(port, "windows_pc", device_name, bridge). The same
\* arguments reach send_discover_once through rust_discover_once (102-115).
rust_start_discovery(port, user_alias) ==
    [on |-> TRUE, port |-> port, device_id |-> S_WINDOWS_PC,
     device_name |-> IF user_alias = <<>> THEN S_UNKNOWN_WINDOWS_PC ELSE user_alias,
     server_port |-> ServerPort]

\* Hosts A and B have both called rust_start_discovery on the default port.
InitWin ==
    /\ total_size_store = 0
    /\ progress_counter = 0
    /\ files = [p \in FilePaths |-> NoFile]
    /\ hnd = [c \in Conns |-> HndFree]
    /\ rx_requests = <<>>
    /\ rx_progress = {}
    /\ rx_complete = <<>>
    /\ c2s = [c \in Conns |-> <<>>]
    /\ c2sClosed = [c \in Conns |-> FALSE]
    /\ s2c = [c \in Conns |-> <<>>]
    /\ s2cClosed = [c \in Conns |-> FALSE]
    /\ snd = SndIdle
    /\ wrk = [i \in Workers |-> WrkIdle]
    /\ error_occurred = FALSE
    /\ tx_progress = 0
    /\ tx_complete = <<>>
    /\ \E aliasA \in UserAliases("A"), aliasB \in UserAliases("B") :
          listener = [e \in Endpoints |->
                         rust_start_discovery(DefaultPort, IF e = "A" THEN aliasA ELSE aliasB)]
    /\ udp_net = {}
    /\ udp_log = <<>>
    /\ udp_sends = 0
    /\ BroadcastsOff
    /\ NoDevices

\* rust_discover_once at either host, datagrams of a third machine, and the
\* listeners' rounds.
WinSpec == InitWin /\ [][NextExchange]_vars

\* C39 (as claimed): of two hosts that run discovery through the Windows
\* entry points, each one that receives the other's DISCOVER calls
\* on_device_found for it and sends a HERE reply.
C39_WindowsHostsDiscover ==
    \A k \in DOMAIN udp_log :
        LET r == udp_log[k]
        IN  (/\ StartsWith(r.msg, S_DISCOVER)
             /\ r.addr # IpOf(r.at)) =>
                /\ Len(FoundOf(r)) = 1
                /\ FoundOf(r)[1][2].ip = r.addr
                /\ Len(SentOf(r)) = 1
                /\ StartsWith(SentOf(r)[1][2].msg, S_HERE)

\* ------------------------------------- the desktop application's device list

\* on_device_found leaving the device_id of a known address as it was.
on_device_found_keeps_id(devs, device_info) ==
    IF \E i \in DOMAIN devs : devs[i].ip = device_info.ip
    THEN LET i == CHOOSE i \in DOMAIN devs :
                     /\ devs[i].ip = device_info.ip
                     /\ \A j \in 1..(i - 1) : devs[j].ip # device_info.ip
         IN  [devs EXCEPT ![i] = [@ EXCEPT !.name = device_info.name,
                                           !.control_port = device_info.control_port]]
    ELSE Append(devs, device_info)

\* wlm.rs 123-139: DesktopDiscoveryCallback::on_device_found under the state's
\* lock: the first entry with the descriptor's ip takes its name,
\* control_port and device_id; without one the descriptor is pushed.
on_device_found(devs, device_info) ==
    IF \E i \in DOMAIN devs : devs[i].ip = device_info.ip
    THEN LET i == CHOOSE i \in DOMAIN devs :
                     /\ devs[i].ip = device_info.ip
                     /\ \A j \in 1..(i - 1) : devs[j].ip # device_info.ip
         IN  [devs EXCEPT ![i] = [@ EXCEPT !.name = device_info.name,
                                           !.control_port = device_info.control_port,
                                           !.device_id = device_info.device_id]]
    ELSE Append(devs, device_info)

\* The on_device_found calls among events, made in order on the list devs.
RECURSIVE Notify(_, _)
Notify(devs, events) ==
    IF events = <<>> THEN devs
    ELSE Notify(IF Head(events)[1] = "found" THEN on_device_found(devs, Head(events)[2])
                ELSE devs,
                Tail(events))

\* The on_device_found calls the desktop host can see in one run.
MaxFound == 3

IdY == <<"Y">>
NameY == <<"y">>

\* DISCOVER and HERE datagrams of devices X and Y under either name and with
\* either control port, and one that causes no callback.
DesktopMsgs ==
    {HereMsg(id, name, port) : id \in {IdX, IdY}, name \in {NameX, NameY}, port \in {4061, 5000}}
    \cup {DiscoverMsg(IdX, NameX, 4061), DiscoverMsg(IdY, NameX, 5000), S_HERE \o IdX}

\* A machine at address src sends msg to the discovery port of the desktop
\* host e.
PeerAnnounce(e, src, msg) ==
    /\ listener[e].on
    /\ udp_sends < MaxFound
    /\ udp_sends' = udp_sends + 1
    /\ udp_net' = udp_net \cup {Datagram(IpOf(e), listener[e].port, src, msg)}
    /\ UNCHANGED <<rxVars, netVars, txVars, listener, udp_log, if_addrs, broadcasts, devices>>

\* Lines 57-113 of start_listening with the desktop application's callback:
\* a round of the loop, its on_device_found calls updating the device list.
DesktopRecvFrom(e) ==
    /\ listener[e].on
    /\ \E d \in udp_net :
          /\ d.dst = IpOf(e)
          /\ d.dst_port = listener[e].port
          /\ \E events \in {OnDatagram(listener[e], d.msg, d.src)} :
             \E arrives \in BOOLEAN :
                /\ udp_log' = Append(udp_log, [at |-> e, msg |-> d.msg, addr |-> d.src,
                                               events |-> events])
                /\ udp_net' = (udp_net \ {d}) \cup
                                  (IF arrives THEN Replies(e, events) ELSE {})
                /\ devices' = Notify(devices, events)
    /\ UNCHANGED <<rxVars, netVars, txVars, listener, udp_sends, if_addrs, broadcasts>>

\* wlm.rs 279-284: start_listening(4060, device_name, device_name, disc_cb),
\* the file server being on port 4061.
DesktopListening(device_name) ==
    [on |-> TRUE, port |-> DefaultPort, device_id |-> device_name, device_name |-> device_name,
     server_port |-> ServerPort]

\* Host B runs the desktop application; its device list is empty.
InitDesktop ==
    /\ total_size_store = 0
    /\ progress_counter = 0
    /\ files = [p \in FilePaths |-> NoFile]
    /\ hnd = [c \in Conns |-> HndFree]
    /\ rx_requests = <<>>
    /\ rx_progress = {}
    /\ rx_complete = <<>>
    /\ c2s = [c \in Conns |-> <<>>]
    /\ c2sClosed = [c \in Conns |-> FALSE]
    /\ s2c = [c \in Conns |-> <<>>]
    /\ s2cClosed = [c \in Conns |-> FALSE]
    /\ snd = SndIdle
    /\ wrk = [i \in Workers |-> WrkIdle]
    /\ error_occurred = FALSE
    /\ tx_progress = 0
    /\ tx_complete = <<>>
    /\ listener = [e \in Endpoints |->
                      IF e = "B" THEN DesktopListening(<<"B", "B">>) ELSE NoListener]
    /\ udp_net = {}
    /\ udp_log = <<>>
    /\ udp_sends = 0
    /\ BroadcastsOff
    /\ NoDevices

NextDesktop ==
    \/ \E src \in PeerIps, msg \in DesktopMsgs : PeerAnnounce("B", src, msg)
    \/ DesktopRecvFrom("B")

DesktopSpec == InitDesktop /\ [][NextDesktop]_vars

\* The descriptors of the on_device_found calls made so far, in order.
RECURSIVE FoundSoFar(_)
FoundSoFar(log) ==
    IF log = <<>> THEN <<>>
    ELSE LET found == FoundOf(Head(log))
         IN  [k \in DOMAIN found |-> found[k][2]] \o FoundSoFar(Tail(log))

\* C40: after any sequence of on_device_found calls the desktop host's device
\* list has at most one entry per ip, an entry for exactly the addresses a
\* descriptor came from, and the entry of an ip carries the device_id, name
\* and control_port of the last descriptor received from that ip.
C40_OneEntryPerIpLatest ==
    LET found == FoundSoFar(udp_log)
    IN  /\ \A i, j \in DOMAIN devices : devices[i].ip = devices[j].ip => i = j
        /\ {devices[i].ip : i \in DOMAIN devices} = {found[k].ip : k \in DOMAIN found}
        /\ \A i \in DOMAIN devices :
              \E k \in DOMAIN found :
                 /\ found[k] = devices[i]
                 /\ \A m \in (k + 1)..Len(found) : found[m].ip # devices[i].ip

\* Three callbacks: a descriptor from one address, one from another, and a
\* descriptor from the first address with another id, name and port.
C40_Witness ==
    LET found == FoundSoFar(udp_log)
    IN  /\ Len(found) = 3
        /\ found[1].ip = found[3].ip /\ found[2].ip # found[1].ip
        /\ found[1].device_id # found[3].device_id
        /\ found[1].name # found[3].name
        /\ found[1].control_port # found[3].control_port
        /\ devices = <<found[3], found[2]>>

====
